---- MODULE Spec2Model ----
(***************************************************************************)
(* Donor analytics platform: the import pipeline (DataParser.parseFile,    *)
(* processRawData, groupByDonor), the upload component (FileUpload) and    *)
(* the analytics engine (DonorAnalytics: monthly trends, retention,        *)
(* forecast).                                                              *)
(*                                                                         *)
(* Amounts are whole currency units; every JavaScript number that results  *)
(* from a division is an exact fraction [n, d] with the IEEE specials      *)
(* NaN = 0/0 and +-Infinity = +-1/0.  Rounding of binary floating point is *)
(* not modelled.                                                           *)
(***************************************************************************)
EXTENDS Integers, Sequences, FiniteSets, TLC

VARIABLES
    donors,         \* the application's donor set (array of DonorData)
    uploadResult,   \* FileUpload's uploadResult state
    analysis,       \* the last AnalysisResult computed from donors
    nextId,         \* generateId: number of identifiers handed out
    imports,        \* number of files handled so far
    rowsRead,       \* number of data rows handled so far
    monthlyTrends,  \* trend history handed to the Forecaster and to CorrelationAnalysis
    forecast,       \* the Forecaster's last result
    economicIndicators, \* CorrelationAnalysis state: the loaded indicators
    selectedIndicator,  \* CorrelationAnalysis state: name of the chosen indicator
    loading,            \* CorrelationAnalysis state: indicators are being loaded
    correlationResult,  \* CorrelationAnalysis state: the result shown, or NULL
    combinedData,       \* CorrelationAnalysis state: the aligned points charted
    rawRow,         \* the last row of string cells handed to processRawData
    mappedRow,      \* what mapFields made of it
    emitted,        \* the donation processRawData returned for it, or NULL
    today,          \* new Date() when that row was processed
    dateText,     \* the last string handed to parseDate on its own
    parsedDate,     \* what parseDate returned for it, or NULL
    isAIDialogOpen, \* Dashboard state: the AI dialog is shown
    messages,       \* AIDialogBox state: the chat messages
    inputValue,     \* AIDialogBox state: the text of the input
    isLoading,      \* AIDialogBox state: a request is being awaited
    isMinimized,    \* AIDialogBox state: only the header is shown
    pending         \* the queries of the analyzeWithAI calls that have not settled

corrVars == <<economicIndicators, selectedIndicator, loading, correlationResult,
              combinedData>>

rowVars == <<rawRow, mappedRow, emitted, today>>

dateVars == <<dateText, parsedDate>>

dialogVars == <<isAIDialogOpen, messages, inputValue, isLoading, isMinimized, pending>>

vars == <<donors, uploadResult, analysis, nextId, imports, rowsRead,
          monthlyTrends, forecast, corrVars, rowVars, dateVars, dialogVars>>

\* ---------------------------------------------------------------- bounds
MaxDonations == 3     \* data rows over all imports of one session
MaxImports == 2       \* files per session
MaxBulk == 8          \* data rows per session of the bulk-donor scenario
MaxMonths == 7        \* months of history handed to the Forecaster
MaxAmount == 3        \* largest monthly amount handed to the Forecaster
MaxCorrMonths == 4    \* months of history handed to CorrelationAnalysis
MaxTextRows == 2      \* rows of string cells handed to processRawData
MaxMany == 11         \* rows over the imports of the many-donor scenario
MaxSends == 2         \* user messages accepted by the AI dialog

\* null and undefined where an object or an array is expected, and a present one
Null == [some |-> FALSE]

Some(v) == [some |-> TRUE, value |-> v]

\* undefined where a string is expected
UNDEFINED == <<"undefined">>

\* ------------------------------------------------- JavaScript numbers
Abs(x) == IF x < 0 THEN -x ELSE x

Sign(x) == IF x < 0 THEN -1 ELSE IF x > 0 THEN 1 ELSE 0

RECURSIVE Gcd(_, _)
Gcd(a, b) == IF b = 0 THEN a ELSE Gcd(b, a % b)

\* the number n/d; d = 0 gives NaN (n = 0) or +-Infinity
Num(n, d) ==
    IF d = 0 THEN [n |-> Sign(n), d |-> 0]
    ELSE LET g == Gcd(Abs(n), Abs(d))
         IN  [n |-> Sign(d) * (n \div g), d |-> Abs(d) \div g]

NaN == [n |-> 0, d |-> 0]

IsNaN(x) == x.n = 0 /\ x.d = 0

IsFinite(x) == x.d # 0

FromInt(i) == [n |-> i, d |-> 1]

Zero == FromInt(0)

One == FromInt(1)

Add(a, b) ==
    IF IsNaN(a) \/ IsNaN(b) THEN NaN
    ELSE IF a.d = 0 /\ b.d = 0 THEN (IF a.n = b.n THEN a ELSE NaN)
    ELSE IF a.d = 0 THEN a
    ELSE IF b.d = 0 THEN b
    ELSE LET g == Gcd(a.d, b.d)
             l == (a.d \div g) * b.d
         IN  Num(a.n * (l \div a.d) + b.n * (l \div b.d), l)

Neg(a) == [n |-> -a.n, d |-> a.d]

Sub(a, b) == Add(a, Neg(b))

Mul(a, b) ==
    LET g1 == Gcd(Abs(a.n), b.d)
        g2 == Gcd(Abs(b.n), a.d)
    IN  IF a.d = 0 \/ b.d = 0 THEN Num(a.n * b.n, a.d * b.d)
        ELSE Num((a.n \div g1) * (b.n \div g2), (a.d \div g2) * (b.d \div g1))

Div(a, b) ==
    IF b.n < 0 THEN Mul(a, [n |-> -b.d, d |-> -b.n])
    ELSE IF b.n = 0 /\ b.d # 0 THEN Num(a.n, 0)
    ELSE Mul(a, [n |-> b.d, d |-> b.n])

\* a < b and a > b; false when either side is NaN
Lt(a, b) == ~IsNaN(a) /\ ~IsNaN(b) /\ a.n * b.d < b.n * a.d

Gt(a, b) == Lt(b, a)

\* Math.max and Math.min: NaN when either argument is NaN
MathMax(a, b) == IF IsNaN(a) \/ IsNaN(b) THEN NaN ELSE IF Lt(a, b) THEN b ELSE a

MathMin(a, b) == IF IsNaN(a) \/ IsNaN(b) THEN NaN ELSE IF Lt(b, a) THEN b ELSE a

\* ------------------------------------------------------------ sequences
SeqsUpTo(S, n) == UNION {[1..k -> S] : k \in 0..n}

Range(s) == {s[i] : i \in 1..Len(s)}

RECURSIVE SumSeq(_)
SumSeq(s) == IF s = <<>> THEN 0 ELSE s[1] + SumSeq(Tail(s))

\* Array.prototype.indexOf: 0-based position of the first occurrence, -1 if none
IndexOf(s, x) ==
    IF \E i \in 1..Len(s) : s[i] = x
    THEN (CHOOSE i \in 1..Len(s) : s[i] = x /\ \A j \in 1..(i - 1) : s[j] # x) - 1
    ELSE -1

\* sorted with x put after its first k elements
InsertAt(sorted, k, x) ==
    SubSeq(sorted, 1, k) \o <<x>> \o SubSeq(sorted, k + 1, Len(sorted))

\* -------------------------------------------------------------- strings
\* a string is a sequence of characters
UpperChars == <<"A", "B", "C", "D", "E", "F", "G", "H", "I", "J", "K", "L", "M",
               "N", "O", "P", "Q", "R", "S", "T", "U", "V", "W", "X", "Y", "Z">>

LowerChars == <<"a", "b", "c", "d", "e", "f", "g", "h", "i", "j", "k", "l", "m",
               "n", "o", "p", "q", "r", "s", "t", "u", "v", "w", "x", "y", "z">>

LowerChar(c) ==
    IF \E i \in 1..Len(UpperChars) : UpperChars[i] = c
    THEN LowerChars[CHOOSE i \in 1..Len(UpperChars) : UpperChars[i] = c]
    ELSE c

toLowerCase(s) == [i \in 1..Len(s) |-> LowerChar(s[i])]

\* String.prototype.trim
RECURSIVE trim(_)
trim(s) ==
    IF s = <<>> THEN s
    ELSE IF s[1] = " " THEN trim(Tail(s))
    ELSE IF s[Len(s)] = " " THEN trim(SubSeq(s, 1, Len(s) - 1))
    ELSE s

\* ---------------------------------------------------------------- dates
\* a Date is [year, month (0 = January .. 11 = December), day]
MkDate(y, m, d) == [year |-> y, month |-> m, day |-> d]

\* Date.getTime: a number that grows with the instant
getTime(date) == (date.year * 12 + date.month) * 31 + date.day

\* the date-fns month abbreviations of format(date, 'MMM yyyy')
MonthAbbr == <<"Jan", "Feb", "Mar", "Apr", "May", "Jun",
               "Jul", "Aug", "Sep", "Oct", "Nov", "Dec">>

\* format(date, 'MMM yyyy'): the abbreviation and the year, split at the blank
formatMMMyyyy(date) == <<MonthAbbr[date.month + 1], date.year>>

\* subMonths(date, 1) on the first day of a month
\* the year is not carried when January is left
subMonths1_NoCarry(date) ==
    IF date.month = 0 THEN MkDate(date.year, 11, date.day)
    ELSE MkDate(date.year, date.month - 1, date.day)

subMonths1(date) ==
    IF date.month = 0 THEN MkDate(date.year - 1, 11, date.day)
    ELSE MkDate(date.year, date.month - 1, date.day)

\* -------------------------------------------------- DataParser.groupByDonor
\* a key that keeps the case of the first name
DonorKey_CaseSensitive(donation) ==
    donation.firstName \o <<"_">> \o toLowerCase(donation.lastName)

DonorKey(donation) ==
    toLowerCase(donation.firstName) \o <<"_">> \o toLowerCase(donation.lastName)

\* thresholds shifted by one
calculateDonationFrequency_Shifted(count) ==
    IF count = 1 THEN "one-time"
    ELSE IF count < 3 THEN "occasional"
    ELSE IF count < 6 THEN "regular"
    ELSE "frequent"

calculateDonationFrequency(count) ==
    IF count = 1 THEN "one-time"
    ELSE IF count <= 3 THEN "occasional"
    ELSE IF count <= 6 THEN "regular"
    ELSE "frequent"

\* position of key in the donor map (a sequence of [key, value] entries), 0 if absent
MapIndex(donorMap, key) ==
    IF \E i \in 1..Len(donorMap) : donorMap[i].key = key
    THEN CHOOSE i \in 1..Len(donorMap) : donorMap[i].key = key
    ELSE 0

NewDonor(donorId, donation) ==
    [id |-> donorId,
     firstName |-> donation.firstName,
     lastName |-> donation.lastName,
     email |-> donation.email,
     phone |-> donation.phone,
     donations |-> <<>>,
     totalAmount |-> 0,
     donationCount |-> 0,
     averageDonation |-> Zero,
     firstDonation |-> donation.date,
     lastDonation |-> donation.date,
     donationFrequency |-> "one-time"]

\* the running total is overwritten instead of added to
AddDonation_Overwrite(donor, donation) ==
    [donor EXCEPT
        !.donations = Append(@, [donation EXCEPT !.donorId = donor.id]),
        !.totalAmount = donation.amount,
        !.donationCount = @ + 1,
        !.firstDonation = IF getTime(donation.date) < getTime(@) THEN donation.date ELSE @,
        !.lastDonation = IF getTime(donation.date) > getTime(@) THEN donation.date ELSE @]

\* the lower bound is never extended
AddDonation_NoMin(donor, donation) ==
    [donor EXCEPT
        !.donations = Append(@, [donation EXCEPT !.donorId = donor.id]),
        !.totalAmount = @ + donation.amount,
        !.donationCount = @ + 1,
        !.lastDonation = IF getTime(donation.date) > getTime(@) THEN donation.date ELSE @]

\* the donation is put in front of the donor's donations
AddDonation_Prepend(donor, donation) ==
    [donor EXCEPT
        !.donations = <<[donation EXCEPT !.donorId = donor.id]>> \o @,
        !.totalAmount = @ + donation.amount,
        !.donationCount = @ + 1,
        !.firstDonation = IF getTime(donation.date) < getTime(@) THEN donation.date ELSE @,
        !.lastDonation = IF getTime(donation.date) > getTime(@) THEN donation.date ELSE @]

\* the part of the loop body that updates the donor a donation belongs to
AddDonation(donor, donation) ==
    [donor EXCEPT
        !.donations = Append(@, [donation EXCEPT !.donorId = donor.id]),
        !.totalAmount = @ + donation.amount,
        !.donationCount = @ + 1,
        !.firstDonation = IF getTime(donation.date) < getTime(@) THEN donation.date ELSE @,
        !.lastDonation = IF getTime(donation.date) > getTime(@) THEN donation.date ELSE @]

\* one iteration of donations.forEach; st = [map, nextId]
GroupStep(st, donation) ==
    LET key == DonorKey(donation)
        isNew == MapIndex(st.map, key) = 0
        map1 == IF isNew
                THEN Append(st.map, [key |-> key, value |-> NewDonor(st.nextId, donation)])
                ELSE st.map
        i == MapIndex(map1, key)
    IN  [map |-> [map1 EXCEPT ![i].value = AddDonation(@, donation)],
         nextId |-> IF isNew THEN st.nextId + 1 ELSE st.nextId]

\* the derived fields computed after the loop
Derive(donor) ==
    [donor EXCEPT
        !.averageDonation = Div(FromInt(donor.totalAmount), FromInt(donor.donationCount)),
        !.donationFrequency = calculateDonationFrequency(donor.donationCount)]

\* groupByDonor(donations) with generateId starting at id0: [data, nextId]
groupByDonor(donations, id0) ==
    LET F[i \in 0..Len(donations)] ==
            IF i = 0 THEN [map |-> <<>>, nextId |-> id0]
            ELSE GroupStep(F[i - 1], donations[i])
        end == F[Len(donations)]
    IN  [data |-> [i \in 1..Len(end.map) |-> Derive(end.map[i].value)],
         nextId |-> end.nextId]

\* ------------------------------------------------ DataParser.processRawData
\* A row is the outcome of mapFields for one CSV line: the cells mapped to
\* firstName, lastName, name, email, phone (strings, UNDEFINED when unmapped),
\* the amount cell as a number (0 also stands for an unmapped or empty cell:
\* all three are falsy) and the Date that this.parseDate yields for the date
\* and month cells.
Truthy(cell) == cell # UNDEFINED /\ cell # <<>>

OrEmpty(cell) == IF Truthy(cell) THEN cell ELSE <<>>

\* parseAmount of a cell of type number
parseAmount(value) == value

\* the callback of rawData.map: a donation with identifier id, or NULL
BuildDonation(row, id) ==
    IF (~Truthy(row.firstName) /\ ~Truthy(row.lastName)) \/ row.amount = 0
    THEN Null
    ELSE LET first0 == OrEmpty(row.firstName)
             last0 == OrEmpty(row.lastName)
             split == ~Truthy(first0) /\ ~Truthy(last0) /\ Truthy(row.name)
             nameParts == trim(row.name)
             sp == IndexOf(nameParts, " ")
             firstName == IF ~split THEN first0
                          ELSE IF sp < 0 THEN nameParts ELSE SubSeq(nameParts, 1, sp)
             lastName == IF ~split THEN last0
                         ELSE IF sp < 0 THEN <<>> ELSE SubSeq(nameParts, sp + 2, Len(nameParts))
         IN  IF ~Truthy(firstName) /\ ~Truthy(lastName) THEN Null
             ELSE Some(
                  [id |-> id,
                   firstName |-> trim(firstName),
                   lastName |-> trim(lastName),
                   amount |-> parseAmount(row.amount),
                   date |-> row.date,
                   email |-> IF Truthy(row.email) THEN trim(row.email) ELSE UNDEFINED,
                   phone |-> IF Truthy(row.phone) THEN trim(row.phone) ELSE UNDEFINED,
                   donorId |-> 0])

\* the predicate of the trailing filter (a Date object is always truthy)
Accepted(donation) ==
    /\ donation.some
    /\ (Truthy(donation.value.firstName) \/ Truthy(donation.value.lastName))
    /\ donation.value.amount > 0

\* processRawData(rawData) with generateId starting at id0: [donations, nextId]
MapStep(st, row) ==
    LET d == BuildDonation(row, st.nextId)
    IN  [out |-> Append(st.out, d),
         nextId |-> IF d.some THEN st.nextId + 1 ELSE st.nextId]

processRawData(rawData, id0) ==
    LET F[i \in 0..Len(rawData)] ==
            IF i = 0 THEN [out |-> <<>>, nextId |-> id0]
            ELSE MapStep(F[i - 1], rawData[i])
        end == F[Len(rawData)]
        K[i \in 0..Len(end.out)] ==
            IF i = 0 THEN <<>>
            ELSE IF Accepted(end.out[i]) THEN Append(K[i - 1], end.out[i].value)
            ELSE K[i - 1]
    IN  [donations |-> K[Len(end.out)], nextId |-> end.nextId]

\* --------------------------------------------------- DataParser.mapFields
\* A raw row is the sequence of its [key, value] pairs in column order: the
\* header text and the cell text, both strings.
Digits == <<"0", "1", "2", "3", "4", "5", "6", "7", "8", "9">>

IsDigit(c) == \E i \in 1..Len(Digits) : Digits[i] = c

\* \w of a regular expression
IsWordChar(c) ==
    \/ IsDigit(c)
    \/ c = "_"
    \/ \E i \in 1..Len(LowerChars) : LowerChars[i] = c \/ UpperChars[i] = c

\* String.prototype.includes
Includes(s, t) == \E i \in 0..(Len(s) - Len(t)) : SubSeq(s, i + 1, i + Len(t)) = t

\* replace(/\s+/g, '_')
RECURSIVE CollapseSpaces(_)
CollapseSpaces(s) ==
    IF s = <<>> THEN <<>>
    ELSE IF s[1] # " " THEN <<s[1]>> \o CollapseSpaces(Tail(s))
    ELSE IF Len(s) > 1 /\ s[2] = " " THEN CollapseSpaces(Tail(s))
    ELSE <<"_">> \o CollapseSpaces(Tail(s))

\* key.toLowerCase().replace(/\s+/g, '_').replace(/[^\w]/g, '')
NormalizeKey(key) == SelectSeq(CollapseSpaces(toLowerCase(key)), IsWordChar)

COMMON_FIELD_MAPPINGS ==
    << [field |-> "firstName", patterns |-> <<
          <<"f", "i", "r", "s", "t", "_", "n", "a", "m", "e">>,
          <<"f", "i", "r", "s", "t", "n", "a", "m", "e">>,
          <<"f", "n", "a", "m", "e">>,
          <<"f", "i", "r", "s", "t">>,
          <<"g", "i", "v", "e", "n", "_", "n", "a", "m", "e">>,
          <<"g", "i", "v", "e", "n", "n", "a", "m", "e">>,
          <<"n", "a", "m", "e">>>>],
      [field |-> "lastName", patterns |-> <<
          <<"l", "a", "s", "t", "_", "n", "a", "m", "e">>,
          <<"l", "a", "s", "t", "n", "a", "m", "e">>,
          <<"l", "n", "a", "m", "e">>,
          <<"l", "a", "s", "t">>,
          <<"s", "u", "r", "n", "a", "m", "e">>,
          <<"f", "a", "m", "i", "l", "y", "_", "n", "a", "m", "e">>,
          <<"f", "a", "m", "i", "l", "y", "n", "a", "m", "e">>>>],
      [field |-> "amount", patterns |-> <<
          <<"a", "m", "o", "u", "n", "t">>,
          <<"d", "o", "n", "a", "t", "i", "o", "n">>,
          <<"g", "i", "f", "t">>,
          <<"c", "o", "n", "t", "r", "i", "b", "u", "t", "i", "o", "n">>,
          <<"v", "a", "l", "u", "e">>,
          <<"t", "o", "t", "a", "l">>,
          <<"s", "u", "m">>,
          <<"d", "o", "l", "l", "a", "r", "s">>,
          <<"m", "o", "n", "e", "y">>>>],
      [field |-> "date", patterns |-> <<
          <<"d", "a", "t", "e">>,
          <<"d", "o", "n", "a", "t", "i", "o", "n", "_", "d", "a", "t", "e">>,
          <<"g", "i", "f", "t", "_", "d", "a", "t", "e">>,
          <<"r", "e", "c", "e", "i", "v", "e", "d", "_", "d", "a", "t", "e">>,
          <<"r", "e", "c", "e", "i", "v", "e", "d", "_", "o", "n">>,
          <<"r", "e", "c", "e", "i", "v", "e", "d", "o", "n">>,
          <<"c", "r", "e", "a", "t", "e", "d", "o", "n">>,
          <<"c", "r", "e", "a", "t", "e", "d", "_", "o", "n">>,
          <<"t", "i", "m", "e", "s", "t", "a", "m", "p">>,
          <<"w", "h", "e", "n">>,
          <<"t", "i", "m", "e">>>>],
      [field |-> "month", patterns |-> <<
          <<"m", "o", "n", "t", "h">>,
          <<"d", "o", "n", "a", "t", "i", "o", "n", "_", "m", "o", "n", "t", "h">>,
          <<"g", "i", "f", "t", "_", "m", "o", "n", "t", "h">>,
          <<"p", "e", "r", "i", "o", "d">>>>],
      [field |-> "email", patterns |-> <<
          <<"e", "m", "a", "i", "l">>,
          <<"e", "m", "a", "i", "l", "_", "a", "d", "d", "r", "e", "s", "s">>,
          <<"e", "_", "m", "a", "i", "l">>,
          <<"m", "a", "i", "l">>,
          <<"e", "m", "a", "i", "l", "a", "d", "d", "r", "e", "s", "s">>>>],
      [field |-> "phone", patterns |-> <<
          <<"p", "h", "o", "n", "e">>,
          <<"p", "h", "o", "n", "e", "_", "n", "u", "m", "b", "e", "r">>,
          <<"t", "e", "l", "e", "p", "h", "o", "n", "e">>,
          <<"m", "o", "b", "i", "l", "e">>,
          <<"p", "h", "o", "n", "e", "n", "u", "m", "b", "e", "r">>,
          <<"t", "e", "l">>,
          <<"m", "o", "b", "i", "l", "e", "n", "u", "m", "b", "e", "r">>,
          <<"m", "o", "b", "i", "l", "e", "_", "n", "u", "m", "b", "e", "r">>>>] >>

PatternsOf(fieldName) ==
    COMMON_FIELD_MAPPINGS[CHOOSE k \in 1..Len(COMMON_FIELD_MAPPINGS) :
                              COMMON_FIELD_MAPPINGS[k].field = fieldName].patterns

\* A mapped field is [col, value]: the column the value was taken from and
\* the value; col = 0 and value undefined for a field that is not set.
NoSlot == [col |-> 0, value |-> UNDEFINED]

\* normalizedRow: one entry per normalized key in the order of first
\* appearance, holding the value of the last column with that key
NormalizeStep(acc, key, value, col) ==
    LET same == {j \in 1..Len(acc) : acc[j].key = key}
    IN  IF same = {} THEN Append(acc, [key |-> key, value |-> value, col |-> col])
        ELSE [j \in 1..Len(acc) |->
                 IF j \in same THEN [key |-> key, value |-> value, col |-> col] ELSE acc[j]]

NormalizedRow(row) ==
    LET F[i \in 0..Len(row)] ==
            IF i = 0 THEN <<>>
            ELSE NormalizeStep(F[i - 1], NormalizeKey(row[i].key), row[i].value, i)
    IN  F[Len(row)]

\* the loop over the patterns for a key equal to one of them
ExactMatch(normalizedRow, patterns) ==
    LET hit == {p \in 1..Len(patterns) :
                   \E j \in 1..Len(normalizedRow) : normalizedRow[j].key = patterns[p]}
    IN  IF hit = {} THEN NoSlot
        ELSE LET p == CHOOSE q \in hit : \A r \in hit : q <= r
                 j == CHOOSE k \in 1..Len(normalizedRow) : normalizedRow[k].key = patterns[p]
             IN  [col |-> normalizedRow[j].col, value |-> normalizedRow[j].value]

\* the loop over the entries for a key that includes a pattern or is included in one
PartialMatch(normalizedRow, patterns) ==
    LET hit == {j \in 1..Len(normalizedRow) :
                   \E p \in 1..Len(patterns) :
                       \/ Includes(normalizedRow[j].key, patterns[p])
                       \/ Includes(patterns[p], normalizedRow[j].key)}
    IN  IF hit = {} THEN NoSlot
        ELSE LET j == CHOOSE k \in hit : \A r \in hit : k <= r
             IN  [col |-> normalizedRow[j].col, value |-> normalizedRow[j].value]

\* one field of the forEach over COMMON_FIELD_MAPPINGS
MatchField(normalizedRow, fieldName) ==
    LET exact == ExactMatch(normalizedRow, PatternsOf(fieldName))
    IN  IF exact.col # 0 THEN exact ELSE PartialMatch(normalizedRow, PatternsOf(fieldName))

MapByPatterns(normalizedRow) ==
    [firstName |-> MatchField(normalizedRow, "firstName"),
     lastName |-> MatchField(normalizedRow, "lastName"),
     amount |-> MatchField(normalizedRow, "amount"),
     date |-> MatchField(normalizedRow, "date"),
     month |-> MatchField(normalizedRow, "month"),
     email |-> MatchField(normalizedRow, "email"),
     phone |-> MatchField(normalizedRow, "phone"),
     name |-> NoSlot]

\* !mapped.field: not set, or set to the empty string
Falsy(slot) == slot.col = 0 \/ slot.value = <<>>

\* typeof value === 'string' && value.trim()
NonBlank(value) == trim(value) # <<>>

\* the fallback for the names: one entry of its forEach
NameStep(mapped, entry) ==
    IF ~NonBlank(entry.value) THEN mapped
    ELSE IF Falsy(mapped.firstName)
            /\ (Includes(entry.key, <<"n", "a", "m", "e">>) \/ Includes(entry.key, <<"f", "i", "r", "s", "t">>))
    THEN [mapped EXCEPT !.firstName = [col |-> entry.col, value |-> entry.value]]
    ELSE IF Falsy(mapped.lastName)
            /\ (Includes(entry.key, <<"l", "a", "s", "t">>) \/ Includes(entry.key, <<"s", "u", "r", "n", "a", "m", "e">>))
    THEN [mapped EXCEPT !.lastName = [col |-> entry.col, value |-> entry.value]]
    ELSE mapped

NameFallback(normalizedRow, mapped) ==
    LET F[i \in 0..Len(normalizedRow)] ==
            IF i = 0 THEN mapped ELSE NameStep(F[i - 1], normalizedRow[i])
    IN  IF Falsy(mapped.firstName) \/ Falsy(mapped.lastName)
        THEN F[Len(normalizedRow)] ELSE mapped

\* /[\d.,$]/.test(value)
LooksNumeric(value) ==
    \E i \in 1..Len(value) : IsDigit(value[i]) \/ value[i] \in {".", ",", "$"}

\* the fallback for the amount applied whether or not an amount is mapped
AmountFallback_Always(normalizedRow, mapped) ==
    LET hit == {j \in 1..Len(normalizedRow) :
                   /\ LooksNumeric(normalizedRow[j].value)
                   /\ \/ Includes(normalizedRow[j].key, <<"a", "m", "o", "u", "n", "t">>)
                      \/ Includes(normalizedRow[j].key, <<"d", "o", "n", "a", "t", "i", "o", "n">>)
                      \/ Includes(normalizedRow[j].key, <<"g", "i", "f", "t">>)
                      \/ Includes(normalizedRow[j].key, <<"t", "o", "t", "a", "l">>)}
    IN  IF hit = {} THEN mapped
        ELSE LET j == CHOOSE k \in hit : \A r \in hit : r <= k
             IN  [mapped EXCEPT !.amount =
                     [col |-> normalizedRow[j].col, value |-> normalizedRow[j].value]]

\* the fallback for the amount: the last entry that qualifies
AmountFallback(normalizedRow, mapped) ==
    LET hit == {j \in 1..Len(normalizedRow) :
                   /\ LooksNumeric(normalizedRow[j].value)
                   /\ \/ Includes(normalizedRow[j].key, <<"a", "m", "o", "u", "n", "t">>)
                      \/ Includes(normalizedRow[j].key, <<"d", "o", "n", "a", "t", "i", "o", "n">>)
                      \/ Includes(normalizedRow[j].key, <<"g", "i", "f", "t">>)
                      \/ Includes(normalizedRow[j].key, <<"t", "o", "t", "a", "l">>)}
    IN  IF ~Falsy(mapped.amount) \/ hit = {} THEN mapped
        ELSE LET j == CHOOSE k \in hit : \A r \in hit : r <= k
             IN  [mapped EXCEPT !.amount =
                     [col |-> normalizedRow[j].col, value |-> normalizedRow[j].value]]

\* the full name in one field: the last entry that qualifies
FullName(normalizedRow, mapped) ==
    LET hit == {j \in 1..Len(normalizedRow) :
                   /\ NonBlank(normalizedRow[j].value)
                   /\ Includes(normalizedRow[j].key, <<"n", "a", "m", "e">>)
                   /\ ~Includes(normalizedRow[j].key, <<"f", "u", "n", "d">>)
                   /\ ~Includes(normalizedRow[j].key, <<"b", "a", "t", "c", "h">>)}
    IN  IF ~(Falsy(mapped.firstName) /\ Falsy(mapped.lastName)) \/ hit = {} THEN mapped
        ELSE LET j == CHOOSE k \in hit : \A r \in hit : r <= k
             IN  [mapped EXCEPT !.name =
                     [col |-> normalizedRow[j].col, value |-> normalizedRow[j].value]]

\* mapFields(row): the mapped values, each with the column it came from
mapFields(row) ==
    LET normalizedRow == NormalizedRow(row)
    IN  FullName(normalizedRow,
            AmountFallback(normalizedRow,
                NameFallback(normalizedRow, MapByPatterns(normalizedRow))))

\* --------------------------------------------- parseAmount of a string cell
\* the longest prefix of digits
RECURSIVE TakeDigits(_)
TakeDigits(s) ==
    IF s = <<>> \/ ~IsDigit(s[1]) THEN <<>> ELSE <<s[1]>> \o TakeDigits(Tail(s))

\* the number written by a sequence of digits
RECURSIVE ToNat(_)
ToNat(digits) ==
    IF digits = <<>> THEN 0
    ELSE 10 * ToNat(SubSeq(digits, 1, Len(digits) - 1)) + IndexOf(Digits, digits[Len(digits)])

RECURSIVE Pow10(_)
Pow10(k) == IF k = 0 THEN 1 ELSE 10 * Pow10(k - 1)

\* parseFloat on a string of digits, '.' and '-': the longest prefix that is
\* a decimal literal (sign, digits, point, digits), NaN when it has no digit
parseFloat(s) ==
    LET negative == s # <<>> /\ s[1] = "-"
        unsigned == IF negative THEN Tail(s) ELSE s
        whole == TakeDigits(unsigned)
        rest == SubSeq(unsigned, Len(whole) + 1, Len(unsigned))
        fraction == IF rest # <<>> /\ rest[1] = "." THEN TakeDigits(Tail(rest)) ELSE <<>>
        magnitude == ToNat(whole) * Pow10(Len(fraction)) + ToNat(fraction)
    IN  IF whole = <<>> /\ fraction = <<>> THEN NaN
        ELSE Num(IF negative THEN -magnitude ELSE magnitude, Pow10(Len(fraction)))

\* [0-9.-]
IsAmountChar(c) == IsDigit(c) \/ c = "." \/ c = "-"

\* parseAmount(value) of a value that is a string or undefined
parseAmountString(value) ==
    IF value = UNDEFINED THEN Zero
    ELSE LET parsed == parseFloat(SelectSeq(value, IsAmountChar))
         IN  IF IsNaN(parsed) THEN Zero ELSE parsed

\* ------------------------------------------------- parseDate of a string cell
\* String.prototype.split on a one-character separator
RECURSIVE SplitOn(_, _)
SplitOn(s, sep) ==
    IF IndexOf(s, sep) < 0 THEN <<s>>
    ELSE <<SubSeq(s, 1, IndexOf(s, sep))>>
             \o SplitOn(SubSeq(s, IndexOf(s, sep) + 2, Len(s)), sep)

AllDigits(s) == s # <<>> /\ \A i \in 1..Len(s) : IsDigit(s[i])

IsLeapYear(y) == (y % 4 = 0 /\ y % 100 # 0) \/ y % 400 = 0

\* the days of month m (1 = January) of year y
DaysInMonth(y, m) ==
    IF m = 2 THEN (IF IsLeapYear(y) THEN 29 ELSE 28)
    ELSE IF m \in {4, 6, 9, 11} THEN 30 ELSE 31

\* date-fns parse with a format of three numbers around one separator: a
\* month or a day is one or two digits, a year one to four, the whole string
\* is consumed and the date must exist
ParseNumeric(s, format) ==
    LET parts == SplitOn(s, format.sep)
        yi == IF format.order = "YMD" THEN 1 ELSE 3
        mi == IF format.order = "MDY" THEN 1 ELSE 2
        di == IF format.order = "MDY" THEN 2 ELSE IF format.order = "YMD" THEN 3 ELSE 1
    IN  IF /\ Len(parts) = 3
           /\ \A k \in 1..3 : AllDigits(parts[k])
           /\ Len(parts[yi]) <= 4 /\ Len(parts[mi]) <= 2 /\ Len(parts[di]) <= 2
           /\ ToNat(parts[yi]) > 0
           /\ ToNat(parts[mi]) \in 1..12
           /\ ToNat(parts[di]) \in 1..DaysInMonth(ToNat(parts[yi]), ToNat(parts[mi]))
        THEN Some(MkDate(ToNat(parts[yi]), ToNat(parts[mi]) - 1, ToNat(parts[di])))
        ELSE Null

\* the formats with the day-first ones tried before the month-first ones
NumericFormats_DayFirst ==
    << [sep |-> "/", order |-> "DMY"], [sep |-> "-", order |-> "DMY"],
       [sep |-> "/", order |-> "MDY"], [sep |-> "/", order |-> "MDY"],
       [sep |-> "-", order |-> "MDY"], [sep |-> "-", order |-> "MDY"],
       [sep |-> "-", order |-> "YMD"], [sep |-> "/", order |-> "YMD"] >>

\* the numeric formats in the order they are tried: MM/dd/yyyy, M/d/yyyy,
\* MM-dd-yyyy, M-d-yyyy, yyyy-MM-dd, dd/MM/yyyy, yyyy/MM/dd, dd-MM-yyyy
NumericFormats ==
    << [sep |-> "/", order |-> "MDY"], [sep |-> "/", order |-> "MDY"],
       [sep |-> "-", order |-> "MDY"], [sep |-> "-", order |-> "MDY"],
       [sep |-> "-", order |-> "YMD"], [sep |-> "/", order |-> "DMY"],
       [sep |-> "/", order |-> "YMD"], [sep |-> "-", order |-> "DMY"] >>

\* 'MMM dd, yyyy', 'dd MMM yyyy' and new Date(dateText), for a string
\* that failed the numeric formats and has no month name: the two formats
\* fail, and what new Date makes of the string is left to the engine.  A
\* string without a digit is an Invalid Date everywhere.  For m/d/y with a
\* day above the length of month m and at most 31 a lenient engine carries
\* the extra days into the next month (2/30/2024 is March 1) and a strict
\* one gives an Invalid Date; with a month above 12 or a day above 31 the
\* date is invalid in both.
ParseWithMonthNameOrNative(s, lenient) ==
    LET parts == SplitOn(s, "/")
    IN  IF /\ lenient
           /\ Len(parts) = 3
           /\ \A k \in 1..3 : AllDigits(parts[k])
           /\ Len(parts[1]) <= 2 /\ Len(parts[2]) <= 2 /\ Len(parts[3]) = 4
           /\ ToNat(parts[1]) \in 1..12
           /\ ToNat(parts[2]) \in 1..31
           /\ ToNat(parts[2]) > DaysInMonth(ToNat(parts[3]), ToNat(parts[1]))
        THEN Some(MkDate(ToNat(parts[3]), ToNat(parts[1]),
                         ToNat(parts[2]) - DaysInMonth(ToNat(parts[3]), ToNat(parts[1]))))
        ELSE Null

\* parseDate(dateText): the first format that gives a valid date
parseDate(dateString, lenient) ==
    LET hit == {k \in 1..Len(NumericFormats) : ParseNumeric(dateString, NumericFormats[k]).some}
    IN  IF hit # {}
        THEN ParseNumeric(dateString, NumericFormats[CHOOSE k \in hit : \A j \in hit : k <= j])
        ELSE ParseWithMonthNameOrNative(dateString, lenient)

monthNames ==
    << <<"j", "a", "n", "u", "a", "r", "y">>,
       <<"f", "e", "b", "r", "u", "a", "r", "y">>,
       <<"m", "a", "r", "c", "h">>,
       <<"a", "p", "r", "i", "l">>,
       <<"m", "a", "y">>,
       <<"j", "u", "n", "e">>,
       <<"j", "u", "l", "y">>,
       <<"a", "u", "g", "u", "s", "t">>,
       <<"s", "e", "p", "t", "e", "m", "b", "e", "r">>,
       <<"o", "c", "t", "o", "b", "e", "r">>,
       <<"n", "o", "v", "e", "m", "b", "e", "r">>,
       <<"d", "e", "c", "e", "m", "b", "e", "r">> >>

\* String.prototype.startsWith
StartsWith(s, t) == Len(t) <= Len(s) /\ SubSeq(s, 1, Len(t)) = t

\* parseMonth(value) of a string: 1..12, or 0 for null
parseMonth(value) ==
    LET normalized == toLowerCase(value)
        hit == {k \in 1..Len(monthNames) : StartsWith(monthNames[k], normalized)}
    IN  IF hit = {} THEN 0 ELSE CHOOSE k \in hit : \A j \in hit : k <= j

\* DataParser.parseDate(dateValue, monthValue) when new Date() is now
DataParser_parseDate(dateValue, monthValue, now, lenient) ==
    IF Truthy(dateValue) /\ parseDate(dateValue, lenient).some
    THEN parseDate(dateValue, lenient).value
    ELSE IF Truthy(monthValue) /\ parseMonth(monthValue) # 0
    THEN MkDate(now.year, parseMonth(monthValue) - 1, 1)
    ELSE now

\* ---------------------------------- processRawData on one row of string cells
\* the callback of rawData.map on the mapped row mapFields returns
BuildDonationFromCells(mapped, id, now, lenient) ==
    IF (Falsy(mapped.firstName) /\ Falsy(mapped.lastName)) \/ Falsy(mapped.amount)
    THEN Null
    ELSE LET first0 == OrEmpty(mapped.firstName.value)
             last0 == OrEmpty(mapped.lastName.value)
             split == ~Truthy(first0) /\ ~Truthy(last0) /\ Truthy(mapped.name.value)
             nameParts == trim(mapped.name.value)
             sp == IndexOf(nameParts, " ")
             firstName == IF ~split THEN first0
                          ELSE IF sp < 0 THEN nameParts ELSE SubSeq(nameParts, 1, sp)
             lastName == IF ~split THEN last0
                         ELSE IF sp < 0 THEN <<>> ELSE SubSeq(nameParts, sp + 2, Len(nameParts))
         IN  IF ~Truthy(firstName) /\ ~Truthy(lastName) THEN Null
             ELSE Some(
                  [id |-> id,
                   firstName |-> trim(firstName),
                   lastName |-> trim(lastName),
                   amount |-> parseAmountString(mapped.amount.value),
                   date |-> DataParser_parseDate(mapped.date.value, mapped.month.value, now, lenient),
                   email |-> IF Truthy(mapped.email.value) THEN trim(mapped.email.value)
                             ELSE UNDEFINED,
                   phone |-> IF Truthy(mapped.phone.value) THEN trim(mapped.phone.value)
                             ELSE UNDEFINED,
                   donorId |-> 0])

\* the filter without the test of the amount
AcceptedFromCells_AnyAmount(donation) ==
    /\ donation.some
    /\ (Truthy(donation.value.firstName) \/ Truthy(donation.value.lastName))

\* the predicate of the trailing filter, the amount being a parsed number
AcceptedFromCells(donation) ==
    /\ donation.some
    /\ (Truthy(donation.value.firstName) \/ Truthy(donation.value.lastName))
    /\ Gt(donation.value.amount, Zero)

\* -------------------------------------------------------------- AIDialogBox
\* A dialog is [messages, inputValue, isLoading, pending]: the three pieces
\* of state handleSendMessage works on and the requests it has started.
\* React commits the updates a click or key handler makes before the next
\* event is dispatched, and those of the continuation of an await before any
\* event that follows it, so a handler reads the state as the last handler
\* or continuation left it.
\* the message the dialog starts with ("Hello! I'm your AI analytics assistant ...")
Greeting == [type |-> "ai", content |-> <<"H", "e", "l", "l", "o", "!">>, analysis |-> FALSE]

\* "I apologize, but I encountered an error while analyzing your data. ..."
Apology == <<"I", " ", "a", "p", "o", "l", "o", "g", "i", "z", "e">>

\* quickQuestions[0]
QuickQuestion ==
    <<"A", "n", "a", "l", "y", "z", "e", " ", "o", "u", "r", " ", "d", "o", "n", "o", "r", " ",
      "r", "e", "t", "e", "n", "t", "i", "o", "n", " ", "p", "a", "t", "t", "e", "r", "n", "s">>

\* !inputValue.trim() || isLoading: the guard of handleSendMessage and the
\* disabled attribute of the send button
Blocked(dialog) == trim(dialog.inputValue) = <<>> \/ dialog.isLoading

\* the part before the await where isLoading is left as it is
SendMessage_NotLoading(dialog) ==
    [dialog EXCEPT
        !.messages = Append(@, [type |-> "user", content |-> dialog.inputValue,
                                analysis |-> FALSE]),
        !.inputValue = <<>>,
        !.pending = Append(@, dialog.inputValue)]

\* handleSendMessage past its guard, up to the await: the user message, the
\* emptied input, isLoading, and the call of AIService.analyzeWithAI
SendMessage(dialog) ==
    [dialog EXCEPT
        !.messages = Append(@, [type |-> "user", content |-> dialog.inputValue,
                                analysis |-> FALSE]),
        !.inputValue = <<>>,
        !.isLoading = TRUE,
        !.pending = Append(@, dialog.inputValue)]

\* handleSendMessage from the event to the await
handleSendMessage(dialog) ==
    IF Blocked(dialog) THEN dialog ELSE SendMessage(dialog)

\* the continuation after the await: response is the resolved
\* AIAnalysisResponse, or NULL when the promise was rejected
AfterAwait(dialog, response) ==
    [dialog EXCEPT
        !.messages = Append(@, IF response.some
                               THEN [type |-> "ai", content |-> response.value.content,
                                     analysis |-> TRUE]
                               ELSE [type |-> "ai", content |-> Apology, analysis |-> FALSE]),
        !.isLoading = FALSE,
        !.pending = Tail(@)]

\* ------------------------------------------------------ DataParser.parseFile
\* A file is [ext, critical, blank, rows]: the extension of its name, whether
\* Papa.parse reports a Delimiter or Quotes error, the number of lines whose
\* cells are all blank, and the rows that have some non-blank cell.
\* a failure that still carries a donor list
Failure_WithData(message) ==
    [success |-> FALSE, data |-> Some(<<>>), error |-> Some(message), recordsProcessed |-> 0]

Failure(message) ==
    [success |-> FALSE, data |-> Null, error |-> Some(message), recordsProcessed |-> 0]

getFileType(file) == IF toLowerCase(file.ext) = <<"c", "s", "v">> THEN "csv" ELSE "throw"

\* parseCSV: the rows it resolves with, or the message it rejects with
parseCSV(file) ==
    IF file.critical THEN [rejected |-> TRUE, message |-> "CSV parsing error"]
    ELSE IF file.blank + Len(file.rows) = 0
    THEN [rejected |-> TRUE, message |-> "No data found in the CSV file"]
    ELSE [rejected |-> FALSE, rows |-> file.rows]

\* parseFile(file) with generateId starting at id0: [result, nextId]
parseFile(file, id0) ==
    IF getFileType(file) # "csv"
    THEN [result |-> Failure("Unsupported file format. Please use CSV files."), nextId |-> id0]
    ELSE LET csv == parseCSV(file)
         IN  IF csv.rejected THEN [result |-> Failure(csv.message), nextId |-> id0]
             ELSE LET processedData == processRawData(csv.rows, id0)
                      donorData == groupByDonor(processedData.donations, processedData.nextId)
                  IN  [result |-> [success |-> TRUE,
                                   data |-> Some(donorData.data),
                                   error |-> Null,
                                   recordsProcessed |-> Len(csv.rows)],
                       nextId |-> donorData.nextId]

\* ------------------------------------------------------------ onDataLoaded
\* The application's merge of an import into its donor set: every donation
\* of the import is added to the donor with the same normalized name key,
\* which is created from the imported donor when the set has none.
\* the imported donor is always added as a new donor
MergeDonor_Duplicate(set, incoming) == Append(set, incoming)

MergeDonor(set, incoming) ==
    LET key == DonorKey(incoming)
        hit == {i \in 1..Len(set) : DonorKey(set[i]) = key}
    IN  IF hit = {} THEN Append(set, incoming)
        ELSE LET i == CHOOSE j \in hit : \A k \in hit : j <= k
                 G[n \in 0..Len(incoming.donations)] ==
                     IF n = 0 THEN set[i]
                     ELSE AddDonation(G[n - 1], incoming.donations[n])
             IN  [set EXCEPT ![i] = Derive(G[Len(incoming.donations)])]

onDataLoaded(set, data) ==
    LET F[i \in 0..Len(data)] == IF i = 0 THEN set ELSE MergeDonor(F[i - 1], data[i])
    IN  F[Len(data)]

\* ------------------------------------- DonorAnalytics.calculateMonthlyTrends
\* the key `${year}-${month + 1 padded to two digits}`
MonthKey(date) ==
    [year |-> date.year, mm |-> <<(date.month + 1) \div 10, (date.month + 1) % 10>>]

\* parseInt of the two digits after the dash
parseMonthDigits(mm) == mm[1] * 10 + mm[2]

getMonthNumber(monthName) == IndexOf(MonthAbbr, monthName) + 1

\* position of monthKey in the map (a sequence of [key, amount, donors] entries)
BucketIndex(monthlyData, monthKey) ==
    IF \E i \in 1..Len(monthlyData) : monthlyData[i].key = monthKey
    THEN CHOOSE i \in 1..Len(monthlyData) : monthlyData[i].key = monthKey
    ELSE 0

\* gifts are counted instead of givers
AddToBucket_PerGift(monthlyData, donor, donation) ==
    LET monthKey == MonthKey(donation.date)
        map1 == IF BucketIndex(monthlyData, monthKey) = 0
                THEN Append(monthlyData, [key |-> monthKey, amount |-> 0, donors |-> {}])
                ELSE monthlyData
        i == BucketIndex(map1, monthKey)
    IN  [map1 EXCEPT ![i].amount = @ + donation.amount,
                     ![i].donors = @ \cup {donation.id}]

\* the body of donor.donations.forEach
AddToBucket(monthlyData, donor, donation) ==
    LET monthKey == MonthKey(donation.date)
        map1 == IF BucketIndex(monthlyData, monthKey) = 0
                THEN Append(monthlyData, [key |-> monthKey, amount |-> 0, donors |-> {}])
                ELSE monthlyData
        i == BucketIndex(map1, monthKey)
    IN  [map1 EXCEPT ![i].amount = @ + donation.amount,
                     ![i].donors = @ \cup {donor.id}]

\* the two nested forEach loops
FillBuckets(donorList) ==
    LET Inner(map0, donor) ==
            LET G[j \in 0..Len(donor.donations)] ==
                    IF j = 0 THEN map0 ELSE AddToBucket(G[j - 1], donor, donor.donations[j])
            IN  G[Len(donor.donations)]
        F[i \in 0..Len(donorList)] ==
            IF i = 0 THEN <<>> ELSE Inner(F[i - 1], donorList[i])
    IN  F[Len(donorList)]

\* the callback of .map over the entries of the map
ToTrend(entry) ==
    LET year == entry.key.year
        date == MkDate(year, parseMonthDigits(entry.key.mm) - 1, 1)
    IN  [month |-> formatMMMyyyy(date),
         year |-> year,
         amount |-> entry.amount,
         donorCount |-> Cardinality(entry.donors),
         averageDonation |-> Div(FromInt(entry.amount), FromInt(Cardinality(entry.donors)))]

\* the comparator without the year
TrendCmp_MonthOnly(a, b) ==
    getMonthNumber(a.month[1]) - getMonthNumber(b.month[1])

\* the comparator of the trailing sort: a.year - b.year || month number difference
TrendCmp(a, b) ==
    IF a.year - b.year # 0 THEN a.year - b.year
    ELSE getMonthNumber(a.month[1]) - getMonthNumber(b.month[1])

\* one insertion of the stable sort: x goes after the elements not above it
InsertTrend(sorted, x) ==
    InsertAt(sorted, Cardinality({j \in 1..Len(sorted) : TrendCmp(sorted[j], x) <= 0}), x)

\* Array.prototype.sort with TrendCmp (a stable sort)
SortTrends(s) ==
    LET F[i \in 0..Len(s)] == IF i = 0 THEN <<>> ELSE InsertTrend(F[i - 1], s[i])
    IN  F[Len(s)]

calculateMonthlyTrends(donorList) ==
    LET monthlyData == FillBuckets(donorList)
    IN  SortTrends([i \in 1..Len(monthlyData) |-> ToTrend(monthlyData[i])])

\* ---------------------------------------- DonorAnalytics.calculateRetention
FirstOfMonth(date) == MkDate(date.year, date.month, 1)

\* donors.flatMap(donor => donor.donations.map(d => d.date)), as a set
AllDonationDates(donorList) ==
    UNION {{donorList[i].donations[j].date : j \in 1..Len(donorList[i].donations)} :
           i \in 1..Len(donorList)}

\* the donation date is compared as it is, not truncated to its month
MonthDonors_ByDay(donorList, monthStart) ==
    {donorList[i].id : i \in {k \in 1..Len(donorList) :
        \E j \in 1..Len(donorList[k].donations) :
            getTime(donorList[k].donations[j].date) = getTime(monthStart)}}

\* identifiers of the donors with a donation in the month that starts at monthStart
MonthDonors(donorList, monthStart) ==
    {donorList[i].id : i \in {k \in 1..Len(donorList) :
        \E j \in 1..Len(donorList[k].donations) :
            getTime(FirstOfMonth(donorList[k].donations[j].date)) = getTime(monthStart)}}

\* the filter counting gifts where it should count donors
CountFrequency_Gifts(donorList, classes) ==
    SumSeq([i \in 1..Len(donorList) |->
               IF donorList[i].donationFrequency \in classes
               THEN donorList[i].donationCount ELSE 0])

CountFrequency(donorList, classes) ==
    Cardinality({i \in 1..Len(donorList) : donorList[i].donationFrequency \in classes})

calculateRetention(donorList) ==
    LET allDonationDates == AllDonationDates(donorList)
    IN  IF allDonationDates = {}
        THEN [newDonors |-> 0, returningDonors |-> 0, retentionRate |-> Zero, churnRate |-> Zero]
        ELSE
        LET mostRecentDate == CHOOSE d \in allDonationDates :
                                  \A e \in allDonationDates : getTime(e) <= getTime(d)
            currentMonth == FirstOfMonth(mostRecentDate)
            lastMonth == subMonths1(currentMonth)
            currentMonthDonors == MonthDonors(donorList, currentMonth)
            lastMonthDonors == MonthDonors(donorList, lastMonth)
            returning0 == Cardinality(currentMonthDonors \cap lastMonthDonors)
            new0 == Cardinality(currentMonthDonors) - returning0
            rate0 == IF Cardinality(lastMonthDonors) > 0
                     THEN Div(FromInt(returning0), FromInt(Cardinality(lastMonthDonors)))
                     ELSE Zero
            limited == lastMonthDonors = {} \/ currentMonthDonors = {}
            frequentDonors == CountFrequency(donorList, {"frequent", "regular"})
            occasionalDonors == CountFrequency(donorList, {"occasional"})
            oneTimeDonors == CountFrequency(donorList, {"one-time"})
            returningDonors == IF limited THEN frequentDonors + occasionalDonors ELSE returning0
            newDonors == IF limited THEN oneTimeDonors ELSE new0
            retentionRate == IF limited
                             THEN (IF Len(donorList) > 0
                                   THEN Div(FromInt(returningDonors), FromInt(Len(donorList)))
                                   ELSE Zero)
                             ELSE rate0
        IN  [newDonors |-> newDonors,
             returningDonors |-> returningDonors,
             retentionRate |-> retentionRate,
             churnRate |-> Sub(One, retentionRate)]

\* ----------------------------------------- DonorAnalytics.generateForecast
\* the whole array where its last k elements are meant
SliceLast_Whole(s, k) == s

\* Array.prototype.slice(-k)
SliceLast(s, k) == IF Len(s) <= k THEN s ELSE SubSeq(s, Len(s) - k + 1, Len(s))

\* terms.reduce((sum, term) => sum + term, 0) over numbers that need not be whole
RECURSIVE SumNum(_)
SumNum(terms) ==
    IF terms = <<>> THEN Zero
    ELSE Add(SumNum(SubSeq(terms, 1, Len(terms) - 1)), terms[Len(terms)])

Square(x) == Mul(x, x)

calculateLinearRegression(values) ==
    LET n == Len(values)
        sumX == SumSeq([k \in 1..n |-> k - 1])
        sumY == SumSeq(values)
        sumXY == SumSeq([k \in 1..n |-> (k - 1) * values[k]])
        sumXX == SumSeq([k \in 1..n |-> (k - 1) * (k - 1)])
        slope == Div(FromInt(n * sumXY - sumX * sumY), FromInt(n * sumXX - sumX * sumX))
        intercept == Div(Sub(FromInt(sumY), Mul(slope, FromInt(sumX))), FromInt(n))
        yMean == Div(FromInt(sumY), FromInt(n))
        ssRes == SumNum([k \in 1..n |->
                    Square(Sub(FromInt(values[k]), Add(Mul(slope, FromInt(k - 1)), intercept)))])
        ssTot == SumNum([k \in 1..n |-> Square(Sub(FromInt(values[k]), yMean))])
    IN  [slope |-> slope,
         intercept |-> intercept,
         rSquared |-> Sub(One, Div(ssRes, ssTot))]

\* regression.predict(x)
predict(regression, x) == Add(Mul(regression.slope, FromInt(x)), regression.intercept)

MinHistory == 3

\* the threshold taken one month too low
TooShort_OffByOne(trends) == Len(trends) < MinHistory - 1

\* monthlyTrends.length < 3
TooShort(trends) == Len(trends) < MinHistory

Window == 6

Tenth == Num(1, 10)

generateForecast(trends) ==
    IF TooShort(trends)
    THEN [nextMonth |-> [predictedAmount |-> Zero, confidence |-> Zero],
          nextQuarter |-> [predictedAmount |-> Zero, confidence |-> Zero],
          trendDirection |-> "stable"]
    ELSE
    LET amounts == [i \in 1..Len(trends) |-> trends[i].amount]
        recentTrends == SliceLast(amounts, Window)
        regression == calculateLinearRegression(recentTrends)
        nextMonthPrediction == predict(regression, Len(recentTrends))
        nextQuarterPrediction ==
            Div(Add(Add(predict(regression, Len(recentTrends) + 1),
                        predict(regression, Len(recentTrends) + 2)),
                    predict(regression, Len(recentTrends) + 3)),
                FromInt(3))
        confidence == MathMax(Zero, MathMin(One, regression.rSquared))
        slope == regression.slope
        trendDirection == IF Gt(slope, Tenth) THEN "up"
                          ELSE IF Lt(slope, Neg(Tenth)) THEN "down"
                          ELSE "stable"
    IN  [nextMonth |-> [predictedAmount |-> MathMax(Zero, nextMonthPrediction),
                        confidence |-> confidence],
         nextQuarter |-> [predictedAmount |-> MathMax(Zero, nextQuarterPrediction),
                          confidence |-> confidence],
         trendDirection |-> trendDirection]

\* ---------------------------------------------- DonorAnalytics.analyzeData
TopCount == 10

\* the comparator of donors.sort: b.totalAmount - a.totalAmount
TotalCmp(a, b) == b.totalAmount - a.totalAmount

\* one insertion of the stable sort: x goes after the elements not below it
InsertDonor(sorted, x) ==
    InsertAt(sorted, Cardinality({j \in 1..Len(sorted) : TotalCmp(sorted[j], x) <= 0}), x)

\* Array.prototype.sort with TotalCmp (a stable sort, in place)
SortDonors(s) ==
    LET F[i \in 0..Len(s)] == IF i = 0 THEN <<>> ELSE InsertDonor(F[i - 1], s[i])
    IN  F[Len(s)]

\* the whole array where the first n elements are meant
Slice0_Whole(s, n) == s

\* s.slice(0, n)
Slice0(s, n) == SubSeq(s, 1, IF Len(s) < n THEN Len(s) ELSE n)

\* analyzeData(donors): the result, and the caller's array as sort leaves it
analyzeData(donorList) ==
    LET totalAmount == SumSeq([i \in 1..Len(donorList) |-> donorList[i].totalAmount])
        donationCount == SumSeq([i \in 1..Len(donorList) |-> donorList[i].donationCount])
        sorted == SortDonors(donorList)
        trends == calculateMonthlyTrends(sorted)
    IN  [result |->
            [totalDonors |-> Len(donorList),
             totalAmount |-> totalAmount,
             averageDonation |-> Div(FromInt(totalAmount), FromInt(donationCount)),
             donationCount |-> donationCount,
             topDonors |-> Slice0(sorted, TopCount),
             monthlyTrends |-> trends,
             donorRetention |-> calculateRetention(sorted),
             forecast |-> generateForecast(trends)],
         donors |-> sorted]


\* ------------------------------------------------------ CorrelationAnalysis
\* A coefficient is [sign, square]: the number sign * sqrt(square).  The
\* square root of calculatePearsonCorrelation is never taken: the
\* denominator sqrt(p) is 0 exactly when p is 0, and numerator / sqrt(p) has
\* the sign of the numerator and the square numerator^2 / p.
CoefficientZero == [sign |-> 0, square |-> Zero]

\* the division without the test of the denominator
Coefficient_Unguarded(numerator, radicand) ==
    [sign |-> Sign(numerator.n), square |-> Div(Mul(numerator, numerator), radicand)]

\* denominator === 0 ? 0 : numerator / denominator, denominator = sqrt(radicand)
Coefficient(numerator, radicand) ==
    IF radicand = Zero THEN CoefficientZero
    ELSE [sign |-> Sign(numerator.n), square |-> Div(Mul(numerator, numerator), radicand)]

\* a >= b on numbers
Ge(a, b) == ~IsNaN(a) /\ ~IsNaN(b) /\ ~Lt(a, b)

\* the bands of Math.abs(coefficient): 0.8, 0.6, 0.4, 0.2, squared
Strength(coefficient) ==
    IF Ge(coefficient.square, Num(16, 25)) THEN "Very Strong"
    ELSE IF Ge(coefficient.square, Num(9, 25)) THEN "Strong"
    ELSE IF Ge(coefficient.square, Num(4, 25)) THEN "Moderate"
    ELSE IF Ge(coefficient.square, Num(1, 25)) THEN "Weak"
    ELSE "Very Weak"

\* tStat = r * sqrt((n - 2) / (1 - r^2)) and |tStat| / sqrt(n - 2 + tStat^2)
\* = |r| for n > 2 and r^2 < 1, so pValue is 2 * (1 - |r|) clamped to
\* [0.001, 0.999]: below 0.01 when |r| > 0.995, below 0.05 when |r| > 0.975.
\* For r^2 = 1 the quotient is Infinity / Infinity and pValue is NaN, as it
\* is for n <= 2; every comparison with NaN is false.
Significance(coefficient, n) ==
    IF n <= 2 \/ ~Lt(coefficient.square, One) THEN "Not Significant"
    ELSE IF Gt(coefficient.square, Num(199 * 199, 200 * 200)) THEN "Highly Significant"
    ELSE IF Gt(coefficient.square, Num(39 * 39, 40 * 40)) THEN "Significant"
    ELSE "Not Significant"

\* calculatePearsonCorrelation(x, y) on two sequences of numbers
calculatePearsonCorrelation(x, y) ==
    LET n == Len(x)
        sumX == SumNum(x)
        sumY == SumNum(y)
        sumXY == SumNum([i \in 1..n |-> Mul(x[i], y[i])])
        sumX2 == SumNum([i \in 1..n |-> Mul(x[i], x[i])])
        sumY2 == SumNum([i \in 1..n |-> Mul(y[i], y[i])])
        numerator == Sub(Mul(FromInt(n), sumXY), Mul(sumX, sumY))
        radicand == Mul(Sub(Mul(FromInt(n), sumX2), Mul(sumX, sumX)),
                        Sub(Mul(FromInt(n), sumY2), Mul(sumY, sumY)))
        coefficient == Coefficient(numerator, radicand)
    IN  IF n = 0
        THEN [coefficient |-> CoefficientZero, strength |-> "Very Weak",
              direction |-> "Positive", significance |-> "Not Significant"]
        ELSE [coefficient |-> coefficient,
              strength |-> Strength(coefficient),
              direction |-> IF coefficient.sign >= 0 /\ ~IsNaN(coefficient.square)
                            THEN "Positive" ELSE "Negative",
              significance |-> Significance(coefficient, n)]

\* getMonthIndex: position in the abbreviations, -1 for any other text
getMonthIndex(monthName) == IndexOf(MonthAbbr, monthName)

\* new Date(year, monthIndex, 1), month -1 being December of the year before
TrendDate(trend) ==
    LET m == getMonthIndex(trend.month[1])
    IN  IF m < 0 THEN MkDate(trend.year - 1, 11, 1) ELSE MkDate(trend.year, m, 1)

\* indicator.data.find: the first point of the trend's month and year
EconomicPoint(indicator, trendDate) ==
    LET hit == {k \in 1..Len(indicator.data) :
                   /\ indicator.data[k].date.year = trendDate.year
                   /\ indicator.data[k].date.month = trendDate.month}
    IN  IF hit = {} THEN Null
        ELSE Some(indicator.data[CHOOSE k \in hit : \A j \in hit : k <= j])

\* the forEach that aligns the trends with the indicator
AlignData(indicator, trends) ==
    LET F[i \in 0..Len(trends)] ==
            IF i = 0 THEN <<>>
            ELSE LET economicPoint == EconomicPoint(indicator, TrendDate(trends[i]))
                 IN  IF economicPoint.some
                     THEN Append(F[i - 1],
                                 [month |-> trends[i].month,
                                  donationAmount |-> trends[i].amount,
                                  economicValue |-> economicPoint.value.value,
                                  date |-> TrendDate(trends[i])])
                     ELSE F[i - 1]
    IN  F[Len(trends)]

MinAligned == 3

\* calculateCorrelation() in a render with the given state: the values of
\* correlationResult and combinedData it leaves behind
calculateCorrelation(indicators, selected, trends, result, combined) ==
    LET found == {k \in 1..Len(indicators) : indicators[k].name = selected}
    IN  IF found = {} \/ Len(trends) = 0
        THEN [correlationResult |-> result, combinedData |-> combined]
        ELSE LET indicator == indicators[CHOOSE k \in found : \A j \in found : k <= j]
                 alignedData == AlignData(indicator, trends)
             IN  IF Len(alignedData) < MinAligned
                 THEN [correlationResult |-> Null, combinedData |-> alignedData]
                 ELSE [correlationResult |->
                          Some(calculatePearsonCorrelation(
                              [i \in 1..Len(alignedData) |-> FromInt(alignedData[i].donationAmount)],
                              [i \in 1..Len(alignedData) |-> alignedData[i].economicValue])),
                       combinedData |-> alignedData]

\* the effect on [selectedIndicator, economicIndicators, monthlyTrends]
CorrelationEffect(indicators, selected, trends, result, combined) ==
    IF selected # "" /\ Len(indicators) > 0
    THEN calculateCorrelation(indicators, selected, trends, result, combined)
    ELSE [correlationResult |-> result, combinedData |-> combined]

\* ------------------------------------------------------------------ inputs
Dec23 == MkDate(2023, 11, 15)

Jan24a == MkDate(2024, 0, 10)

Jan24b == MkDate(2024, 0, 20)

Feb24 == MkDate(2024, 1, 5)

Mar24 == MkDate(2024, 2, 5)

Row(first, last, name, amount, date, email, phone) ==
    [firstName |-> first, lastName |-> last, name |-> name, amount |-> amount,
     date |-> date, email |-> email, phone |-> phone]

RowPool ==
    { Row(<<"a">>, <<"c">>, UNDEFINED, 1, Jan24b, UNDEFINED, UNDEFINED),
      Row(<<"A">>, <<"C">>, UNDEFINED, 2, Dec23, <<"e", "1">>, UNDEFINED),
      Row(<<"a", "_", "b">>, <<"c">>, UNDEFINED, 2, Jan24a, <<"e", "2">>, <<"p", "1">>),
      Row(<<"a">>, <<"b", "_", "c">>, UNDEFINED, 1, Feb24, UNDEFINED, <<"p", "2">>),
      Row(<<"b">>, <<>>, UNDEFINED, -1, Jan24a, UNDEFINED, UNDEFINED),
      Row(UNDEFINED, UNDEFINED, <<"a", " ", "c">>, 1, Feb24, UNDEFINED, UNDEFINED) }

BulkPool ==
    { Row(<<"a">>, <<"c">>, UNDEFINED, 1, Jan24a, UNDEFINED, UNDEFINED),
      Row(<<"b">>, <<"c">>, UNDEFINED, 2, Mar24, UNDEFINED, UNDEFINED) }

\* the months handed to CorrelationAnalysis: December 2022, January 2023, ...
CorrMonth(k) == MkDate(2022 + ((k + 10) \div 12), (k + 10) % 12, 1)

CorrAmounts == {1, 2}

CorrTrend(k, amount) ==
    [month |-> formatMMMyyyy(CorrMonth(k)),
     year |-> CorrMonth(k).year,
     amount |-> amount,
     donorCount |-> 1,
     averageDonation |-> FromInt(amount)]

\* the histories of at most MaxCorrMonths months
TrendLists ==
    {[i \in 1..Len(amounts) |-> CorrTrend(i, amounts[i])] :
        amounts \in SeqsUpTo(CorrAmounts, MaxCorrMonths)}

\* the points of an indicator: values for January 2023 and the months after it
Points(values) ==
    [k \in 1..Len(values) |-> [date |-> MkDate(2023, k - 1, 1), value |-> FromInt(values[k])]]

Indicator(name, values) == [name |-> name, data |-> Points(values)]

\* what getAllIndicators resolves with, the values differing from load to load
IndicatorLoads ==
    { <<Indicator("Consumer Confidence Index", <<1, 2, 4, 3, 5>>),
        Indicator("Unemployment Rate", <<3, 3, 3, 3, 3>>)>>,
      <<Indicator("Consumer Confidence Index", <<4, 2, 1, 3, 5>>),
        Indicator("Unemployment Rate", <<2, 1>>)>> }

\* the rows of string cells: a header text and a cell text per column
Cell(key, value) == [key |-> key, value |-> value]

Today == MkDate(2024, 5, 15)

\* the days on which a row is processed
Nows == {Today, MkDate(2025, 0, 1)}

\* First Name, Last Name, Amount, Date
NamedRows ==
    { <<Cell(<<"F", "i", "r", "s", "t", " ", "N", "a", "m", "e">>, first), Cell(<<"L", "a", "s", "t", " ", "N", "a", "m", "e">>, last),
        Cell(<<"A", "m", "o", "u", "n", "t">>, amount), Cell(<<"D", "a", "t", "e">>, date)>> :
        first \in {<<>>, <<"A", "l">>},
        last \in {<<>>, <<"B", "o">>},
        amount \in {<<>>, <<"5">>, <<"-", "5">>},
        date \in {<<>>, <<"1", "/", "5", "/", "2", "0", "2", "4">>, <<"1", "3", "/", "1", "/", "2", "0", "2", "4">>, <<"a", "b", "c">>} }

\* Name, Amount, Month
FullNameRows ==
    { <<Cell(<<"N", "a", "m", "e">>, name), Cell(<<"A", "m", "o", "u", "n", "t">>, amount),
        Cell(<<"M", "o", "n", "t", "h">>, month)>> :
        name \in {<<"A", "l", " ", "B", "o">>, <<" ">>},
        amount \in {<<"$", "1", ",", "2", "5", "0", ".", "5", "0">>, <<"0">>, <<"a", "b", "c">>},
        month \in {<<>>, <<"m", "a", "r">>, <<"x", "y", "z">>} }

\* Donor Name, Amount, Total
TotalRows ==
    { <<Cell(<<"D", "o", "n", "o", "r", " ", "N", "a", "m", "e">>, <<"A", "l", " ", "B", "o">>), Cell(<<"A", "m", "o", "u", "n", "t">>, amount), Cell(<<"T", "o", "t", "a", "l">>, total)>> :
        amount \in {<<>>, <<"5">>},
        total \in {<<"n", "/", "a">>, <<"7">>} }

\* Name, Amount, Date: amounts that are not one decimal number
MalformedRows ==
    { <<Cell(<<"N", "a", "m", "e">>, <<"A", "l", " ", "B", "o">>), Cell(<<"A", "m", "o", "u", "n", "t">>, amount),
        Cell(<<"D", "a", "t", "e">>, <<"1", "/", "5", "/", "2", "0", "2", "4">>)>> :
        amount \in {<<"1", ".", "2", ".", "3">>, <<"1", "0", "-", "2", "0">>, <<"$", "7", ".", "5">>} }

TextRows == NamedRows \cup FullNameRows \cup TotalRows \cup MalformedRows

\* the decimal text of a number below 10000, with a leading 0 where asked
NatText(n, pad) ==
    LET text == IF n < 10 THEN <<Digits[n + 1]>>
                ELSE IF n < 100 THEN <<Digits[(n \div 10) + 1], Digits[(n % 10) + 1]>>
                ELSE <<Digits[(n \div 1000) + 1], Digits[((n \div 100) % 10) + 1],
                       Digits[((n \div 10) % 10) + 1], Digits[(n % 10) + 1]>>
    IN  IF pad /\ n < 10 THEN <<"0">> \o text ELSE text

\* the strings handed to parseDate on its own: a/b/yyyy with and without
\* leading zeros, a-b-yyyy, yyyy-b-a, and a string without a digit
DateStrings ==
    {NatText(a, pad) \o <<"/">> \o NatText(b, pad) \o <<"/">> \o NatText(y, FALSE) :
        a \in {1, 2, 4, 12, 13, 31}, b \in {1, 5, 12, 13, 30, 31},
        y \in {2023, 2024}, pad \in BOOLEAN}
    \cup {NatText(a, FALSE) \o <<"-">> \o NatText(b, FALSE) \o <<"-">> \o NatText(2024, FALSE) :
        a \in {1, 12, 13}, b \in {1, 5, 12, 13}}
    \cup {NatText(2024, FALSE) \o <<"-">> \o NatText(b, TRUE) \o <<"-">> \o NatText(a, TRUE) :
        a \in {1, 13}, b \in {1, 12}}
    \cup {<<"a", "b", "c">>}

CsvFile(rows) == [ext |-> <<"c", "s", "v">>, critical |-> FALSE, blank |-> 0, rows |-> rows]

BadFiles ==
    { [ext |-> <<"x", "l", "s", "x">>, critical |-> FALSE, blank |-> 0, rows |-> <<>>],
      [ext |-> <<"C", "S", "V">>, critical |-> TRUE, blank |-> 0, rows |-> <<>>],
      [ext |-> <<"c", "s", "v">>, critical |-> FALSE, blank |-> 0, rows |-> <<>>],
      [ext |-> <<"C", "S", "V">>, critical |-> FALSE, blank |-> 1, rows |-> <<>>] }

\* the files of at most room data rows
Files(room) == BadFiles \cup {CsvFile(rows) : rows \in SeqsUpTo(RowPool, room) \ {<<>>}}

BulkFiles(room) == BadFiles \cup {CsvFile(rows) : rows \in SeqsUpTo(BulkPool, room) \ {<<>>}}

\* the many-donor scenario: row i is the only row of the i-th of the donors
\* a, b, c, ...; the amounts rise with i or run through 1, 2, 3
ManyPatterns == {"rising", "cyclic"}

ManyRow(i, pattern) ==
    Row(<<LowerChars[((i - 1) % 26) + 1]>>, <<"x">>, UNDEFINED,
        IF pattern = "rising" THEN i ELSE (i % 3) + 1,
        IF i % 3 = 0 THEN Jan24a ELSE IF i % 3 = 1 THEN Feb24 ELSE Mar24,
        UNDEFINED, UNDEFINED)

ManyFiles(room) ==
    {CsvFile([i \in 1..n |-> ManyRow(i, pattern)]) : n \in 1..room, pattern \in ManyPatterns}

\* ------------------------------------------------------------------ actions
Init ==
    /\ donors = <<>>
    /\ uploadResult = Null
    /\ analysis = Null
    /\ nextId = 1
    /\ imports = 0
    /\ rowsRead = 0
    /\ monthlyTrends = <<>>
    /\ forecast = Null
    /\ economicIndicators = <<>>
    /\ selectedIndicator = ""
    /\ loading = TRUE
    /\ correlationResult = Null
    /\ combinedData = <<>>
    /\ rawRow = Null
    /\ mappedRow = Null
    /\ emitted = Null
    /\ today = Today
    /\ dateText = <<>>
    /\ parsedDate = Null
    /\ isAIDialogOpen = FALSE
    /\ messages = <<Greeting>>
    /\ inputValue = <<>>
    /\ isLoading = FALSE
    /\ isMinimized = FALSE
    /\ pending = <<>>

\* FileUpload.handleFile(file), from the call to the end of its continuation
HandleFile(file) ==
    LET parsed == parseFile(file, nextId)
        result == parsed.result
    IN  /\ imports < MaxImports
        /\ imports' = imports + 1
        /\ rowsRead' = rowsRead + Len(file.rows)
        /\ nextId' = parsed.nextId
        /\ uploadResult' = Some(result)
        /\ donors' = IF result.success /\ result.data.some
                     THEN onDataLoaded(donors, result.data.value)
                     ELSE donors
        /\ UNCHANGED <<analysis, monthlyTrends, forecast, corrVars, rowVars, dateVars, dialogVars>>

Upload ==
    \E file \in Files(MaxDonations - rowsRead) : HandleFile(file)

\* DonorAnalytics.analyzeData(donors) on the application's donor set
AnalyzeData ==
    LET done == analyzeData(donors)
    IN  /\ analysis' = Some(done.result)
        /\ donors' = done.donors
        /\ UNCHANGED <<uploadResult, nextId, imports, rowsRead, monthlyTrends, forecast, corrVars, rowVars, dateVars, dialogVars>>

Next == Upload \/ AnalyzeData

Spec == Init /\ [][Next]_vars

\* the scenario of few donors with many donations
UploadBulk ==
    \E file \in BulkFiles(MaxBulk - rowsRead) : HandleFile(file)

NextBulk == UploadBulk \/ AnalyzeData

SpecBulk == Init /\ [][NextBulk]_vars

\* the scenario of more donors than the list of top donors holds
UploadMany ==
    \E file \in ManyFiles(MaxMany - rowsRead) : HandleFile(file)

NextMany == UploadMany \/ AnalyzeData

SpecMany == Init /\ [][NextMany]_vars

\* the Forecaster on its own: a history that grows month by month
MonthOf(k) == MkDate(2024 + ((k - 1) \div 12), (k - 1) % 12, 1)

AppendMonth ==
    \E amount \in 1..MaxAmount :
        /\ Len(monthlyTrends) < MaxMonths
        /\ monthlyTrends' = Append(monthlyTrends,
               [month |-> formatMMMyyyy(MonthOf(Len(monthlyTrends) + 1)),
                year |-> MonthOf(Len(monthlyTrends) + 1).year,
                amount |-> amount,
                donorCount |-> 1,
                averageDonation |-> FromInt(amount)])
        /\ forecast' = Null
        /\ UNCHANGED <<donors, uploadResult, analysis, nextId, imports, rowsRead, corrVars, rowVars, dateVars, dialogVars>>

GenerateForecast ==
    /\ forecast' = Some(generateForecast(monthlyTrends))
    /\ UNCHANGED <<donors, uploadResult, analysis, nextId, imports, rowsRead, monthlyTrends, corrVars, rowVars, dateVars, dialogVars>>

NextForecast == AppendMonth \/ GenerateForecast

SpecForecast == Init /\ [][NextForecast]_vars

\* CorrelationAnalysis on its own: loads, selections and new trend histories
\* loadEconomicIndicators() to its end, and the effect of the render after it
LoadEconomicIndicators ==
    \E indicators \in IndicatorLoads :
        LET selected == IF Len(indicators) > 0 THEN indicators[1].name
                        ELSE selectedIndicator
            after == CorrelationEffect(indicators, selected, monthlyTrends,
                                       correlationResult, combinedData)
        IN  /\ economicIndicators' = indicators
            /\ selectedIndicator' = selected
            /\ loading' = FALSE
            /\ correlationResult' = after.correlationResult
            /\ combinedData' = after.combinedData
            /\ UNCHANGED <<donors, uploadResult, analysis, nextId, imports, rowsRead,
                           monthlyTrends, forecast, rowVars, dateVars, dialogVars>>

\* the onChange of the select, and the effect of the render after it
SelectIndicator ==
    \E k \in 1..Len(economicIndicators) :
        LET after == CorrelationEffect(economicIndicators, economicIndicators[k].name,
                                       monthlyTrends, correlationResult, combinedData)
        IN  /\ ~loading
            /\ economicIndicators[k].name # selectedIndicator
            /\ selectedIndicator' = economicIndicators[k].name
            /\ correlationResult' = after.correlationResult
            /\ combinedData' = after.combinedData
            /\ UNCHANGED <<donors, uploadResult, analysis, nextId, imports, rowsRead,
                           monthlyTrends, forecast, economicIndicators, loading, rowVars, dateVars, dialogVars>>

\* a render with a new monthlyTrends prop, and its effect
TrendsChange ==
    \E trends \in TrendLists :
        LET after == CorrelationEffect(economicIndicators, selectedIndicator, trends,
                                       correlationResult, combinedData)
        IN  /\ trends # monthlyTrends
            /\ monthlyTrends' = trends
            /\ correlationResult' = after.correlationResult
            /\ combinedData' = after.combinedData
            /\ UNCHANGED <<donors, uploadResult, analysis, nextId, imports, rowsRead,
                           forecast, economicIndicators, selectedIndicator, loading,
                           rowVars, dateVars, dialogVars>>

NextCorr == LoadEconomicIndicators \/ SelectIndicator \/ TrendsChange

SpecCorr == Init /\ [][NextCorr]_vars

\* processRawData on its own: one row of string cells at a time
\* processRawData([row]): mapFields, the callback of map, the filter
ProcessRow ==
    \E row \in TextRows, now \in Nows, lenient \in BOOLEAN :
        LET mapped == mapFields(row)
            built == BuildDonationFromCells(mapped, nextId, now, lenient)
        IN  /\ rowsRead < MaxTextRows
            /\ rowsRead' = rowsRead + 1
            /\ rawRow' = Some(row)
            /\ mappedRow' = Some(mapped)
            /\ emitted' = IF AcceptedFromCells(built) THEN built ELSE Null
            /\ nextId' = IF built.some THEN nextId + 1 ELSE nextId
            /\ today' = now
            /\ UNCHANGED <<donors, uploadResult, analysis, imports, monthlyTrends,
                           forecast, corrVars, dateVars, dialogVars>>

NextRows == ProcessRow

SpecRows == Init /\ [][NextRows]_vars

\* parseDate on its own: one string at a time, on an engine of either kind
ParseDate ==
    \E s \in DateStrings, lenient \in BOOLEAN :
        /\ dateText' = s
        /\ parsedDate' = parseDate(s, lenient)
        /\ UNCHANGED <<donors, uploadResult, analysis, nextId, imports, rowsRead,
                       monthlyTrends, forecast, corrVars, rowVars, dialogVars>>

NextDates == ParseDate

SpecDates == Init /\ [][NextDates]_vars

\* the AI dialog on its own
\* what the user may type, and what the service may answer
DialogTexts == {<<>>, <<" ">>, <<"q">>, <<"r", " ">>}

Responses == {Null, Some([content |-> <<"o", "k">>])}

Dialog ==
    [messages |-> messages, inputValue |-> inputValue, isLoading |-> isLoading,
     pending |-> pending]

\* the state the dialog is left in
SetDialog(dialog) ==
    /\ messages' = dialog.messages
    /\ inputValue' = dialog.inputValue
    /\ isLoading' = dialog.isLoading
    /\ pending' = dialog.pending

\* the body of the dialog is rendered
BodyShown == isAIDialogOpen /\ ~isMinimized

\* the AI Assistant button of the Dashboard, and the X of the dialog
OpenDialog ==
    /\ ~isAIDialogOpen
    /\ isAIDialogOpen' = TRUE
    /\ UNCHANGED <<donors, uploadResult, analysis, nextId, imports, rowsRead, monthlyTrends,
                   forecast, corrVars, rowVars, dateVars, messages, inputValue, isLoading,
                   isMinimized, pending>>

CloseDialog ==
    /\ isAIDialogOpen
    /\ isAIDialogOpen' = FALSE
    /\ UNCHANGED <<donors, uploadResult, analysis, nextId, imports, rowsRead, monthlyTrends,
                   forecast, corrVars, rowVars, dateVars, messages, inputValue, isLoading,
                   isMinimized, pending>>

\* the minimize button of the header
ToggleMinimized ==
    /\ isAIDialogOpen
    /\ isMinimized' = ~isMinimized
    /\ UNCHANGED <<donors, uploadResult, analysis, nextId, imports, rowsRead, monthlyTrends,
                   forecast, corrVars, rowVars, dateVars, isAIDialogOpen, messages, inputValue,
                   isLoading, pending>>

\* onChange of the input, which is disabled while isLoading
ChangeInput ==
    \E text \in DialogTexts :
        /\ BodyShown /\ ~isLoading
        /\ inputValue' = text
        /\ UNCHANGED <<donors, uploadResult, analysis, nextId, imports, rowsRead,
                       monthlyTrends, forecast, corrVars, rowVars, dateVars, isAIDialogOpen,
                       messages, isLoading, isMinimized, pending>>

\* a quick question button, shown while the greeting is the only message
ClickQuickQuestion ==
    /\ BodyShown /\ Len(messages) = 1
    /\ inputValue' = QuickQuestion
    /\ UNCHANGED <<donors, uploadResult, analysis, nextId, imports, rowsRead, monthlyTrends,
                   forecast, corrVars, rowVars, dateVars, isAIDialogOpen, messages, isLoading,
                   isMinimized, pending>>

\* onClick of the send button, which is disabled when Blocked
ClickSend ==
    /\ BodyShown /\ ~Blocked(Dialog)
    /\ Len(messages) < 2 * MaxSends
    /\ SetDialog(handleSendMessage(Dialog))
    /\ UNCHANGED <<donors, uploadResult, analysis, nextId, imports, rowsRead, monthlyTrends,
                   forecast, corrVars, rowVars, dateVars, isAIDialogOpen, isMinimized>>

\* handleKeyPress for Enter without Shift in the input, which is disabled
\* while isLoading
PressEnter ==
    /\ BodyShown /\ ~isLoading
    /\ Len(messages) < 2 * MaxSends
    /\ SetDialog(handleSendMessage(Dialog))
    /\ UNCHANGED <<donors, uploadResult, analysis, nextId, imports, rowsRead, monthlyTrends,
                   forecast, corrVars, rowVars, dateVars, isAIDialogOpen, isMinimized>>

\* the oldest unsettled analyzeWithAI call resolves or rejects, and
\* handleSendMessage runs from the await to its end
SettleRequest ==
    \E response \in Responses :
        /\ pending # <<>>
        /\ SetDialog(AfterAwait(Dialog, response))
        /\ UNCHANGED <<donors, uploadResult, analysis, nextId, imports, rowsRead,
                       monthlyTrends, forecast, corrVars, rowVars, dateVars, isAIDialogOpen,
                       isMinimized>>

NextDialog ==
    \/ OpenDialog \/ CloseDialog \/ ToggleMinimized \/ ChangeInput \/ ClickQuickQuestion
    \/ ClickSend \/ PressEnter \/ SettleRequest

\* a call of analyzeWithAI settles: fetch resolves or rejects
SpecDialog == Init /\ [][NextDialog]_vars /\ WF_vars(SettleRequest)

\* ================================================================== claims
\* the donors returned by the last successful parseFile
ResultData ==
    IF uploadResult.some /\ uploadResult.value.success
    THEN uploadResult.value.data.value
    ELSE <<>>

Amounts(donations) == [j \in 1..Len(donations) |-> donations[j].amount]

\* the normalized name key, written out from the names
NameKey(r) == toLowerCase(r.firstName) \o <<"_">> \o toLowerCase(r.lastName)

EqualIgnoringCase(s, t) == toLowerCase(s) = toLowerCase(t)

\* C1: every Donor returned by groupByDonor has totalAmount equal to the sum
\* of the amounts of its donations and donationCount equal to their number.
C1_DonorTotals ==
    \A i \in 1..Len(ResultData) :
        LET donor == ResultData[i]
        IN  /\ donor.totalAmount = SumSeq(Amounts(donor.donations))
            /\ donor.donationCount = Len(donor.donations)

\* a Donor that received two donations of different amounts
C1_Witness ==
    \E i \in 1..Len(ResultData) :
        /\ Len(ResultData[i].donations) >= 2
        /\ ResultData[i].donations[1].amount # ResultData[i].donations[2].amount

\* C2: two donations whose first names and whose last names are equal
\* ignoring case are in the same Donor, and there are as many Donors as
\* distinct keys lowercase(firstName) + "_" + lowercase(lastName).
C2_GroupedByKey ==
    /\ \A i, k \in 1..Len(ResultData) :
         \A j \in 1..Len(ResultData[i].donations) :
           \A l \in 1..Len(ResultData[k].donations) :
             LET d == ResultData[i].donations[j]
                 e == ResultData[k].donations[l]
             IN  EqualIgnoringCase(d.firstName, e.firstName)
                 /\ EqualIgnoringCase(d.lastName, e.lastName) => i = k
    /\ Len(ResultData) =
         Cardinality(UNION {{NameKey(ResultData[i].donations[j]) :
                                j \in 1..Len(ResultData[i].donations)} :
                            i \in 1..Len(ResultData)})

\* two Donors, one of them holding donations whose names differ in case
C2_Witness ==
    /\ Len(ResultData) >= 2
    /\ \E i \in 1..Len(ResultData) :
         \E j, l \in 1..Len(ResultData[i].donations) :
            ResultData[i].donations[j].firstName # ResultData[i].donations[l].firstName

\* every donation of list a is in list b, at the same relative position
IsPrefix(a, b) == Len(a) <= Len(b) /\ \A j \in 1..Len(a) : b[j].id = a[j].id

OneDonorPerKey(set) ==
    \A i, k \in 1..Len(set) : NameKey(set[i]) = NameKey(set[k]) => i = k

\* C3: after any sequence of imports the donor set holds one Donor per
\* normalized name key; an import keeps every Donor of the set with the
\* donations it had, and the donations it brings are held by the Donor of
\* their key.
C3_MergeByKey ==
    [][/\ OneDonorPerKey(donors')
       /\ \A i \in 1..Len(donors) :
            \E k \in 1..Len(donors') :
               /\ donors'[k].id = donors[i].id
               /\ NameKey(donors'[k]) = NameKey(donors[i])
               /\ IsPrefix(donors[i].donations, donors'[k].donations)
       /\ uploadResult'.some /\ uploadResult'.value.success =>
            \A i \in 1..Len(uploadResult'.value.data.value) :
               LET incoming == uploadResult'.value.data.value[i]
               IN  \E k \in 1..Len(donors') :
                      /\ NameKey(donors'[k]) = NameKey(incoming)
                      /\ \A j \in 1..Len(incoming.donations) :
                           \E l \in 1..Len(donors'[k].donations) :
                              donors'[k].donations[l].id = incoming.donations[j].id
      ]_vars

\* a second import brought a donation for a Donor that the first had created
C3_Witness ==
    /\ imports = 2
    /\ \E i \in 1..Len(ResultData) :
         \E k \in 1..Len(donors) :
            /\ NameKey(donors[k]) = NameKey(ResultData[i])
            /\ donors[k].id # ResultData[i].id
            /\ donors[k].donationCount > ResultData[i].donationCount

FrequencyRank(class) ==
    IF class = "one-time" THEN 1
    ELSE IF class = "occasional" THEN 2
    ELSE IF class = "regular" THEN 3
    ELSE IF class = "frequent" THEN 4
    ELSE 0

\* C4: the frequency class of a Donor is fixed by its donationCount (1
\* one-time, 2-3 occasional, 4-6 regular, 7 and more frequent), so a larger
\* count never has a lower class.
C4_FrequencyByCount ==
    /\ \A i \in 1..Len(ResultData) :
         LET count == ResultData[i].donationCount
             class == ResultData[i].donationFrequency
         IN  /\ count = 1 => class = "one-time"
             /\ count \in 2..3 => class = "occasional"
             /\ count \in 4..6 => class = "regular"
             /\ count >= 7 => class = "frequent"
    /\ \A i, k \in 1..Len(ResultData) :
         ResultData[i].donationCount <= ResultData[k].donationCount =>
            FrequencyRank(ResultData[i].donationFrequency)
               <= FrequencyRank(ResultData[k].donationFrequency)

\* a Donor with seven donations next to a Donor with one
C4_Witness ==
    \E i, k \in 1..Len(ResultData) :
        ResultData[i].donationCount = 7 /\ ResultData[k].donationCount = 1

\* C5: firstDonation is the earliest and lastDonation the latest date of a
\* Donor's donations, and every donation carries the identifier of its Donor.
C5_DateBoundsAndBackLink ==
    \A i \in 1..Len(ResultData) :
        LET donor == ResultData[i]
            dates == {donor.donations[j].date : j \in 1..Len(donor.donations)}
        IN  /\ donor.firstDonation \in dates
            /\ donor.lastDonation \in dates
            /\ \A d \in dates : /\ getTime(donor.firstDonation) <= getTime(d)
                                /\ getTime(d) <= getTime(donor.lastDonation)
            /\ getTime(donor.firstDonation) <= getTime(donor.lastDonation)
            /\ \A j \in 1..Len(donor.donations) : donor.donations[j].donorId = donor.id

\* a Donor whose later donation arrived before its earlier one
C5_Witness ==
    \E i \in 1..Len(ResultData) :
        /\ Len(ResultData[i].donations) >= 2
        /\ getTime(ResultData[i].donations[2].date) < getTime(ResultData[i].donations[1].date)
        /\ ResultData[i].firstDonation = ResultData[i].donations[2].date

\* calendar month index, January = 1, of a MonthlyTrend
MonthIndex(trend) == CHOOSE k \in 1..12 : MonthAbbr[k] = trend.month[1]

\* C6: the MonthlyTrend list is strictly ascending by (year, calendar month
\* index): sorted, with no two entries of the same year and month.
C6_TrendsStrictlyAscending ==
    analysis.some =>
        LET trends == analysis.value.monthlyTrends
        IN  \A i, k \in 1..Len(trends) :
               i < k => \/ trends[i].year < trends[k].year
                        \/ /\ trends[i].year = trends[k].year
                           /\ MonthIndex(trends[i]) < MonthIndex(trends[k])

\* three months over two years whose buckets were not created in calendar order
C6_Witness ==
    /\ analysis.some
    /\ Len(analysis.value.monthlyTrends) = 3
    /\ analysis.value.monthlyTrends[1].year < analysis.value.monthlyTrends[3].year
    /\ Len(donors) > 0
    /\ donors[1].donations[1].date.year = 2024

\* 1 if the donation is dated in month m (January = 1) of year y, else 0
InMonth(donation, y, m) == donation.date.year = y /\ donation.date.month + 1 = m

MonthAmount(set, y, m) ==
    SumSeq([i \in 1..Len(set) |->
        SumSeq([j \in 1..Len(set[i].donations) |->
            IF InMonth(set[i].donations[j], y, m) THEN set[i].donations[j].amount ELSE 0])])

MonthGivers(set, y, m) ==
    {i \in 1..Len(set) : \E j \in 1..Len(set[i].donations) : InMonth(set[i].donations[j], y, m)}

BucketsMatch(set, trends) ==
    \A t \in 1..Len(trends) :
        /\ trends[t].amount = MonthAmount(set, trends[t].year, MonthIndex(trends[t]))
        /\ trends[t].donorCount =
              Cardinality(MonthGivers(set, trends[t].year, MonthIndex(trends[t])))

\* C7: whenever analyzeData produces a result, the amount of each bucket is
\* the sum of the amounts of the donations dated in that month and its
\* donorCount the number of distinct donors who gave in that month.
C7_BucketTotals ==
    [][analysis' # analysis => BucketsMatch(donors', analysis'.value.monthlyTrends)]_vars

\* a month in which one donor gave twice
C7_Witness ==
    /\ analysis.some
    /\ BucketsMatch(donors, analysis.value.monthlyTrends)
    /\ \E t \in 1..Len(analysis.value.monthlyTrends) :
         LET trend == analysis.value.monthlyTrends[t]
         IN  /\ trend.donorCount = 1
             /\ \E i \in 1..Len(donors) :
                  Cardinality({j \in 1..Len(donors[i].donations) :
                      InMonth(donors[i].donations[j], trend.year, MonthIndex(trend))}) >= 2

FlatForecast ==
    [nextMonth |-> [predictedAmount |-> Zero, confidence |-> Zero],
     nextQuarter |-> [predictedAmount |-> Zero, confidence |-> Zero],
     trendDirection |-> "stable"]

\* C8: on a history of fewer than three months the forecast is amount 0 and
\* confidence 0 for next month and next quarter, direction stable.
C8_ShortHistoryFlat ==
    forecast.some /\ Len(monthlyTrends) < 3 => forecast.value = FlatForecast

\* a forecast made over two months of different amounts
C8_Witness ==
    /\ forecast.some
    /\ Len(monthlyTrends) = 2
    /\ monthlyTrends[1].amount # monthlyTrends[2].amount

\* the amounts of the last up to six months
RegressionWindow == 
    {monthlyTrends[i].amount : i \in {k \in 1..Len(monthlyTrends) : k > Len(monthlyTrends) - 6}}

\* C9: with at least three months of history and equal amounts in the whole
\* regression window, the confidence of next month and next quarter is 0.
C9_ConstantWindowConfidenceZero ==
    forecast.some /\ Len(monthlyTrends) >= 3 /\ Cardinality(RegressionWindow) = 1 =>
        /\ forecast.value.nextMonth.confidence = Zero
        /\ forecast.value.nextQuarter.confidence = Zero

\* month count since year 0 of a date
MonthOrd(date) == date.year * 12 + date.month

DonationDates(set) ==
    UNION {{set[i].donations[j].date : j \in 1..Len(set[i].donations)} : i \in 1..Len(set)}

\* the most recent month with a donation
CurrentOrd(set) ==
    CHOOSE m \in {MonthOrd(d) : d \in DonationDates(set)} :
        \A d \in DonationDates(set) : MonthOrd(d) <= m

GiversIn(set, ord) ==
    {i \in 1..Len(set) : \E j \in 1..Len(set[i].donations) : MonthOrd(set[i].donations[j].date) = ord}

CohortRetention(set, retention) ==
    LET current == GiversIn(set, CurrentOrd(set))
        previous == GiversIn(set, CurrentOrd(set) - 1)
        returning == Cardinality(current \cap previous)
    IN  current # {} /\ previous # {} =>
           /\ retention.returningDonors = returning
           /\ retention.newDonors = Cardinality(current) - returning
           /\ retention.retentionRate.d # 0
           /\ retention.retentionRate.n * Cardinality(previous)
                 = returning * retention.retentionRate.d

\* C10: when the most recent donation month and the calendar month before it
\* both have donors, returningDonors is the size of the intersection of the
\* two months' donor sets, newDonors the size of the current set minus
\* returningDonors, and retentionRate returningDonors over the size of the
\* previous set.
C10_CohortRetention ==
    [][analysis' # analysis /\ DonationDates(donors') # {} =>
          CohortRetention(donors', analysis'.value.donorRetention)]_vars

\* January after December: one donor gave in both months, another only in January
C10_Witness ==
    /\ analysis.some
    /\ DonationDates(donors) # {}
    /\ CurrentOrd(donors) % 12 = 0
    /\ LET current == GiversIn(donors, CurrentOrd(donors))
           previous == GiversIn(donors, CurrentOrd(donors) - 1)
       IN  /\ current \cap previous # {}
           /\ current \ previous # {}
           /\ analysis.value.donorRetention.returningDonors = Cardinality(current \cap previous)
           /\ analysis.value.donorRetention.newDonors = Cardinality(current \ previous)
           /\ analysis.value.totalDonors = Len(donors)

\* --------------------------------------------------------------------- C11
\* the donors of the set whose frequency class is one of classes
InClasses(set, classes) ==
    Cardinality({i \in 1..Len(set) : set[i].donationFrequency \in classes})

\* the previous month (or, with no donation at all, the current one) has no donor
MonthSetEmpty(set) ==
    \/ DonationDates(set) = {}
    \/ GiversIn(set, CurrentOrd(set) - 1) = {}

\* retentionRate = returningDonors / total donors, 0 for an empty donor list
RateOverDonors(set, retention) ==
    IF Len(set) = 0
    THEN retention.retentionRate = Zero
    ELSE /\ retention.retentionRate.d # 0
         /\ retention.retentionRate.n * Len(set)
               = retention.returningDonors * retention.retentionRate.d

\* C11 as stated: when the current-month or the previous-month donor set is
\* empty, returningDonors is the number of donors classified frequent or
\* regular, newDonors the number classified one-time, and retentionRate is
\* returningDonors over the number of donors.
C11_FallbackFrequentOrRegular ==
    [][analysis' # analysis /\ DonationDates(donors') # {} /\ MonthSetEmpty(donors') =>
          LET retention == analysis'.value.donorRetention
          IN  /\ retention.returningDonors = InClasses(donors', {"frequent", "regular"})
              /\ retention.newDonors = InClasses(donors', {"one-time"})
              /\ RateOverDonors(donors', retention)]_vars

\* C11 amended: when the current-month or the previous-month donor set is
\* empty, returningDonors is the number of donors classified frequent,
\* regular or occasional, newDonors the number classified one-time, and
\* retentionRate is returningDonors over the number of donors (0 when there
\* is no donor).
C11_FallbackByFrequency ==
    [][analysis' # analysis /\ MonthSetEmpty(donors') =>
          LET retention == analysis'.value.donorRetention
          IN  /\ retention.returningDonors
                    = InClasses(donors', {"frequent", "regular", "occasional"})
              /\ retention.newDonors = InClasses(donors', {"one-time"})
              /\ RateOverDonors(donors', retention)]_vars

\* January and March donors, February empty: a regular or frequent donor next
\* to an occasional one, both counted as returning
C11_Witness ==
    /\ analysis.some
    /\ analysis.value.totalDonors = Len(donors)
    /\ DonationDates(donors) # {}
    /\ MonthSetEmpty(donors)
    /\ InClasses(donors, {"frequent", "regular"}) = 1
    /\ InClasses(donors, {"occasional"}) = 1
    /\ analysis.value.donorRetention.returningDonors = 2
    /\ analysis.value.donorRetention.retentionRate = One

\* --------------------------------------------------------------------- C18
FormatErrors ==
    { "Unsupported file format. Please use CSV files.",
      "CSV parsing error",
      "No data found in the CSV file" }

\* C18: an import that fails on an input format error (an extension other
\* than csv, a critical delimiter or quote error, a file without data rows)
\* reports success = false with an error message, recordsProcessed = 0 and
\* no donor data, and the donor set is left as it was: onDataLoaded is not
\* called and no identifier is used.
C18_FormatErrorFails ==
    [][imports' # imports /\ ~uploadResult'.value.success =>
          /\ uploadResult'.value.error.some
          /\ uploadResult'.value.error.value \in FormatErrors
          /\ uploadResult'.value.recordsProcessed = 0
          /\ ~uploadResult'.value.data.some
          /\ donors' = donors
          /\ nextId' = nextId]_vars

\* a file without data rows is refused after an import that loaded donors
C18_Witness ==
    /\ imports = 2
    /\ Len(donors) > 0
    /\ ~uploadResult.value.success
    /\ uploadResult.value.error = Some("No data found in the CSV file")
    /\ uploadResult.value.recordsProcessed = 0

\* --------------------------------------------------------------------- C19
\* the donations of the donors of a result
AcceptedCount(result) ==
    SumSeq([i \in 1..Len(result.data.value) |-> result.data.value[i].donationCount])

\* C19: for a successful import, recordsProcessed is the number of rows
\* accepted as donations.
C19_RecordsProcessedCountsAccepted ==
    uploadResult.some /\ uploadResult.value.success =>
        uploadResult.value.recordsProcessed = AcceptedCount(uploadResult.value)

\* --------------------------------------------------------------------- C20
\* C20: analyzeData falls back to zero: with no donation at all (an empty
\* donor list) averageDonation is 0, and the averageDonation of every
\* monthly trend is a defined number.
C20_ZeroFallback ==
    analysis.some =>
        /\ analysis.value.donationCount = 0 => analysis.value.averageDonation = Zero
        /\ \A i \in 1..Len(analysis.value.monthlyTrends) :
               IsFinite(analysis.value.monthlyTrends[i].averageDonation)

\* --------------------------------------------------------------------- C12
\* every element of the sequence is the same number
ConstantSeries(values) == \A i, j \in 1..Len(values) : values[i] = values[j]

\* C12: calculatePearsonCorrelation returns the coefficient 0 whenever its
\* denominator is 0, which is when one of the two series is constant.
C12_ZeroDenominatorZeroCoefficient ==
    [][correlationResult' # correlationResult /\ correlationResult'.some
          /\ (\/ ConstantSeries([i \in 1..Len(combinedData') |-> combinedData'[i].donationAmount])
              \/ ConstantSeries([i \in 1..Len(combinedData') |-> combinedData'[i].economicValue]))
          => correlationResult'.value.coefficient = CoefficientZero]_vars

\* three aligned months of an indicator that does not move, the donations moving
C12_Witness ==
    /\ correlationResult.some
    /\ Len(combinedData) >= 3
    /\ ConstantSeries([i \in 1..Len(combinedData) |-> combinedData[i].economicValue])
    /\ ~ConstantSeries([i \in 1..Len(combinedData) |-> combinedData[i].donationAmount])
    /\ correlationResult.value.coefficient = CoefficientZero
    /\ correlationResult.value.strength = "Very Weak"

\* --------------------------------------------------------------------- C13
\* the trends of the current history that have a point of the selected
\* indicator in the same month of the same year
AlignedMonths ==
    {i \in 1..Len(monthlyTrends) :
        \E k \in 1..Len(economicIndicators) :
            /\ economicIndicators[k].name = selectedIndicator
            /\ \E p \in 1..Len(economicIndicators[k].data) :
                   /\ economicIndicators[k].data[p].date.year = monthlyTrends[i].year
                   /\ MonthAbbr[economicIndicators[k].data[p].date.month + 1]
                         = monthlyTrends[i].month[1]}

\* C13: after any sequence of indicator loads, selections and changes of the
\* monthly trends, a correlation result is reported only if the current
\* trends and the selected indicator have at least 3 months aligned by year
\* and month; with fewer (an empty trend list included) none is reported.
C13_ResultNeedsThreeAlignedMonths ==
    correlationResult.some => Cardinality(AlignedMonths) >= 3

\* --------------------------------------------------------------------- C14
\* the text of a mapped field, empty when the field is not set
TextOf(slot) == IF slot.col = 0 THEN <<>> ELSE slot.value

\* the row yields a first or last name that is not empty after trimming
YieldsName(mapped) ==
    trim(TextOf(mapped.firstName)) # <<>> \/ trim(TextOf(mapped.lastName)) # <<>>

\* the row yields an amount that parses to a number above 0
YieldsAmount(mapped) == Gt(parseAmountString(mapped.amount.value), Zero)

\* C14: processRawData emits a donation for a row only if the row yields a
\* first or last name that is not empty after trimming and an amount that
\* parses to a value above 0; the donation carries that name and amount.
C14_EmitsOnlyNamedPositive ==
    emitted.some =>
        /\ YieldsName(mappedRow.value)
        /\ YieldsAmount(mappedRow.value)
        /\ emitted.value.firstName # <<>> \/ emitted.value.lastName # <<>>
        /\ emitted.value.amount = parseAmountString(mappedRow.value.amount.value)
        /\ Gt(emitted.value.amount, Zero)

\* a named row with a negative amount is dropped, as is one with a blank name
C14_Witness ==
    /\ rowsRead = 2
    /\ rawRow.some
    /\ ~emitted.some
    /\ YieldsName(mappedRow.value)
    /\ mappedRow.value.amount.value = <<"-", "5">>
    /\ nextId = 3

\* --------------------------------------------------------------------- C15
\* the row has a date cell that parses, or a month cell that names a month
UsableDateOrMonth(mapped) ==
    \/ Truthy(mapped.date.value) /\ \E lenient \in BOOLEAN : parseDate(mapped.date.value, lenient).some
    \/ Truthy(mapped.month.value) /\ parseMonth(mapped.month.value) # 0

\* C15: a row with a valid name and a positive amount but neither a usable
\* date nor a usable month is rejected.
C15_NoDateNoMonthRejected ==
    rawRow.some /\ ~UsableDateOrMonth(mappedRow.value) => ~emitted.some

\* --------------------------------------------------------------------- C16
\* the columns whose normalized header includes the text
ColumnsWith(row, text) ==
    {i \in 1..Len(row) : Includes(NormalizeKey(row[i].key), text)}

\* the only name information of the row is one full-name column
SingleFullNameColumn(row) ==
    /\ Cardinality(ColumnsWith(row, <<"n", "a", "m", "e">>)) = 1
    /\ \A i \in ColumnsWith(row, <<"n", "a", "m", "e">>) :
           /\ i \notin ColumnsWith(row, <<"f", "u", "n", "d">>)
           /\ i \notin ColumnsWith(row, <<"b", "a", "t", "c", "h">>)
    /\ ColumnsWith(row, <<"f", "i", "r", "s", "t">>) = {}
    /\ ColumnsWith(row, <<"l", "a", "s", "t">>) = {}

FullNameOf(row) ==
    trim(row[CHOOSE i \in ColumnsWith(row, <<"n", "a", "m", "e">>) : TRUE].value)

\* C16: for a row whose only name information is a single full-name column,
\* the donation has the first token of the name as firstName and the
\* remaining tokens, joined by a space, as lastName.
C16_FullNameIsSplit ==
    emitted.some /\ SingleFullNameColumn(rawRow.value) =>
        LET fullName == FullNameOf(rawRow.value)
            sp == IndexOf(fullName, " ")
        IN  /\ emitted.value.firstName
                  = IF sp < 0 THEN fullName ELSE SubSeq(fullName, 1, sp)
            /\ emitted.value.lastName
                  = IF sp < 0 THEN <<>> ELSE SubSeq(fullName, sp + 2, Len(fullName))

\* --------------------------------------------------------------------- C17
Headers(row) == [i \in 1..Len(row) |-> row[i].key]

\* the column each canonical field is taken from, 0 when it is not mapped
ColumnsOf(mapped) ==
    [firstName |-> mapped.firstName.col, lastName |-> mapped.lastName.col,
     amount |-> mapped.amount.col, date |-> mapped.date.col,
     month |-> mapped.month.col, email |-> mapped.email.col,
     phone |-> mapped.phone.col, name |-> mapped.name.col]

NoBlankCell(row) == \A i \in 1..Len(row) : NonBlank(row[i].value)

C21_InputUntouched ==
    [][analysis' # analysis => donors' = donors]_vars

\* --------------------------------------------------------------------- C22
\* generateId numbers the donations of an import in the order of the rows,
\* so the identifiers of ResultData tell the input order.
\* C22: groupByDonor keeps the order of its input: the donations of a donor
\* are in the relative order of the input sequence, and the donors are in
\* the order in which their keys first occur in the input.
C22_OrderPreserved ==
    /\ \A i \in 1..Len(ResultData) :
           \A j, k \in 1..Len(ResultData[i].donations) :
               j < k => ResultData[i].donations[j].id < ResultData[i].donations[k].id
    /\ \A i, k \in 1..Len(ResultData) :
           i < k => ResultData[i].donations[1].id < ResultData[k].donations[1].id

\* two donors, the first of them with two donations that enclose the
\* donation of the second in the input
C22_Witness ==
    /\ Len(ResultData) = 2
    /\ Len(ResultData[1].donations) = 2
    /\ ResultData[1].donations[1].id < ResultData[2].donations[1].id
    /\ ResultData[2].donations[1].id < ResultData[1].donations[2].id

\* --------------------------------------------------------------------- C23
\* the first of the values that is defined, undefined when none is
FirstDefined(values) ==
    IF \E j \in 1..Len(values) : values[j] # UNDEFINED
    THEN values[CHOOSE j \in 1..Len(values) :
                   values[j] # UNDEFINED /\ \A k \in 1..(j - 1) : values[k] = UNDEFINED]
    ELSE UNDEFINED

\* C23: the email (phone) of a donor is that of the first of its donations,
\* in encounter order, that carries one; it is absent only if none does.
C23_ContactFromFirstCarrier ==
    \A i \in 1..Len(ResultData) :
        LET donations == ResultData[i].donations
        IN  /\ ResultData[i].email
                  = FirstDefined([j \in 1..Len(donations) |-> donations[j].email])
            /\ ResultData[i].phone
                  = FirstDefined([j \in 1..Len(donations) |-> donations[j].phone])

\* --------------------------------------------------------------------- C27
\* C27: two donations are in the same donor only if their lowercased first
\* names are equal and their lowercased last names are equal, underscores
\* in the names included.
C27_SameDonorSameNames ==
    \A i \in 1..Len(ResultData) :
        \A j, k \in 1..Len(ResultData[i].donations) :
            /\ toLowerCase(ResultData[i].donations[j].firstName)
                  = toLowerCase(ResultData[i].donations[k].firstName)
            /\ toLowerCase(ResultData[i].donations[j].lastName)
                  = toLowerCase(ResultData[i].donations[k].lastName)

\* --------------------------------------------------------------------- C28
\* the month that calculateRetention takes as current: the first day of the
\* month of the latest donation
CurrentMonthOf(set) ==
    FirstOfMonth(CHOOSE d \in DonationDates(set) :
                     \A e \in DonationDates(set) : getTime(e) <= getTime(d))

\* the values of the frequency heuristic
FrequencyRetention(set, retention) ==
    /\ retention.returningDonors
          = InClasses(set, {"frequent", "regular", "occasional"})
    /\ retention.newDonors = InClasses(set, {"one-time"})
    /\ RateOverDonors(set, retention)

\* C28: for a donor set with at least one donation the current-month donor
\* set of calculateRetention is not empty, so the frequency heuristic is used
\* exactly when no donation is dated in the calendar month before the month
\* of the most recent donation, and then returningDonors + newDonors is the
\* number of donors.
C28_HeuristicIffPreviousMonthEmpty ==
    [][analysis' # analysis /\ DonationDates(donors') # {} =>
          LET retention == analysis'.value.donorRetention
              previous == GiversIn(donors', CurrentOrd(donors') - 1)
          IN  /\ MonthDonors(donors', CurrentMonthOf(donors')) # {}
              /\ previous = {} =>
                    /\ FrequencyRetention(donors', retention)
                    /\ retention.returningDonors + retention.newDonors = Len(donors')
              /\ previous # {} => CohortRetention(donors', retention)]_vars

\* nobody gave in the month before the latest one, and a donor of an earlier
\* month did not give in the latest one: the heuristic counts every donor,
\* the cohort figures would count the current month's donors only
C28_Witness ==
    /\ analysis.some
    /\ analysis.value.totalDonors = Len(donors)
    /\ DonationDates(donors) # {}
    /\ GiversIn(donors, CurrentOrd(donors) - 1) = {}
    /\ Cardinality(GiversIn(donors, CurrentOrd(donors))) < Len(donors)
    /\ analysis.value.donorRetention.returningDonors >= 1
    /\ analysis.value.donorRetention.returningDonors
          + analysis.value.donorRetention.newDonors = Len(donors)

\* --------------------------------------------------------------------- C29
\* the number of donations the donors of the set hold
DonationsHeld(set) == SumSeq([i \in 1..Len(set) |-> Len(set[i].donations)])

\* C29: analyzeData is conservative: the amounts of monthlyTrends add up to
\* totalAmount, donationCount is the number of donations of the donors, and
\* topDonors has min(10, number of donors) entries, which are donors of the
\* set in non-increasing order of totalAmount.
C29_Conservative ==
    [][analysis' # analysis =>
          LET result == analysis'.value
              top == result.topDonors
          IN  /\ SumSeq([i \in 1..Len(result.monthlyTrends) |->
                             result.monthlyTrends[i].amount]) = result.totalAmount
              /\ result.donationCount = DonationsHeld(donors')
              /\ Len(top) = (IF Len(donors') < 10 THEN Len(donors') ELSE 10)
              /\ \A i \in 1..Len(top) : \E k \in 1..Len(donors') : top[i] = donors'[k]
              /\ \A i \in 1..(Len(top) - 1) :
                     top[i].totalAmount >= top[i + 1].totalAmount]_vars

\* more than ten donors with different totals: ten of them are listed
C29_Witness ==
    /\ analysis.some
    /\ analysis.value.totalDonors = Len(donors)
    /\ Len(donors) > 10
    /\ Len(analysis.value.topDonors) = 10
    /\ analysis.value.topDonors[1].totalAmount > analysis.value.topDonors[10].totalAmount
    /\ analysis.value.donationCount > 10

\* --------------------------------------------------------------------- C26
\* a history with the given amounts whose other fields differ from those of
\* the histories AppendMonth builds
OtherTrends(amounts) ==
    [i \in 1..Len(amounts) |->
        [month |-> formatMMMyyyy(MonthOf(i + 5)),
         year |-> MonthOf(i + 5).year,
         amount |-> amounts[i],
         donorCount |-> 2,
         averageDonation |-> Div(FromInt(amounts[i]), FromInt(2))]]

\* the amounts of the last six months of the history
LastSixAmounts ==
    [i \in 1..6 |-> monthlyTrends[Len(monthlyTrends) - 6 + i].amount]

\* C26: with at least three months of history the forecast depends only on
\* the amounts of the last six months (on all of them when there are fewer):
\* a history that agrees on these amounts yields the same predictions,
\* confidence and direction.
C26_LastSixAmountsDecide ==
    forecast.some /\ Len(monthlyTrends) >= 3 =>
        IF Len(monthlyTrends) < 6
        THEN generateForecast(OtherTrends([i \in 1..Len(monthlyTrends) |->
                                              monthlyTrends[i].amount])) = forecast.value
        ELSE \A before \in SeqsUpTo(1..MaxAmount, MaxMonths - 6) :
                 generateForecast(OtherTrends(before \o LastSixAmounts)) = forecast.value

\* a rising forecast for a history of more than six months that starts with
\* a month above the ones after it
C26_Witness ==
    /\ forecast.some
    /\ Len(monthlyTrends) > 6
    /\ monthlyTrends[1].amount > monthlyTrends[2].amount
    /\ forecast.value.trendDirection = "up"

\* --------------------------------------------------------------------- C24
\* what is left of a cell when every character other than digits, '.' and
\* '-' is deleted
AmountRemainder(cell) == SelectSeq(cell, IsAmountChar)

Unsigned(s) == IF s # <<>> /\ s[1] = "-" THEN Tail(s) ELSE s

\* a decimal: an optional leading '-', digits, at most one '.'
WellFormedDecimal(s) ==
    /\ \E i \in 1..Len(s) : IsDigit(s[i])
    /\ \A i \in 1..Len(Unsigned(s)) : Unsigned(s)[i] # "-"
    /\ Cardinality({i \in 1..Len(s) : s[i] = "."}) <= 1

\* the number a well-formed decimal denotes
DenotedDecimal(s) ==
    LET u == Unsigned(s)
        places == IF IndexOf(u, ".") < 0 THEN 0 ELSE Len(u) - IndexOf(u, ".") - 1
        magnitude == ToNat(SelectSeq(u, IsDigit))
    IN  Num(IF u # s THEN -magnitude ELSE magnitude, Pow10(places))

\* C24: parseAmount of a string cell is the decimal number denoted by the
\* cell after deleting every character other than digits, '.' and '-', and 0
\* when that remainder is empty or not a well-formed decimal.
C24_AmountIsDenotedDecimal ==
    emitted.some =>
        emitted.value.amount
            = (IF WellFormedDecimal(AmountRemainder(mappedRow.value.amount.value))
               THEN DenotedDecimal(AmountRemainder(mappedRow.value.amount.value))
               ELSE Zero)

\* --------------------------------------------------------------------- C25
\* the separator of the string handed to parseDate
SeparatorOf(s) == IF IndexOf(s, "/") >= 0 THEN "/" ELSE "-"

\* the numbers between the separators
NumbersOf(s) ==
    [k \in 1..Len(SplitOn(s, SeparatorOf(s))) |-> ToNat(SplitOn(s, SeparatorOf(s))[k])]

\* the string is a/b/yyyy or a-b-yyyy
DayMonthYearShaped(s) ==
    /\ Len(SplitOn(s, SeparatorOf(s))) = 3
    /\ \A k \in 1..3 : AllDigits(SplitOn(s, SeparatorOf(s))[k])
    /\ Len(SplitOn(s, SeparatorOf(s))[1]) <= 2
    /\ Len(SplitOn(s, SeparatorOf(s))[3]) = 4

\* new Date(y, m - 1, d) for a day up to 31: days beyond the end of the
\* month count into the next month
CalendarDate(y, m, d) ==
    IF d <= DaysInMonth(y, m) THEN MkDate(y, m - 1, d)
    ELSE MkDate(y, m, d - DaysInMonth(y, m))

\* C25: the formats are tried in the listed order and the first that yields
\* a valid calendar date decides: a string a/b/yyyy with a <= 12 is always
\* read month-first (month a, day b), and the day-first reading (day a,
\* month b) is returned only when the month-first reading is no valid date.
C25_MonthFirstBeforeDayFirst ==
    parsedDate.some /\ DayMonthYearShaped(dateText) =>
        LET a == NumbersOf(dateText)[1]
            b == NumbersOf(dateText)[2]
            y == NumbersOf(dateText)[3]
        IN  /\ a <= 12 => parsedDate.value = CalendarDate(y, a, b)
            /\ parsedDate.value = MkDate(y, b - 1, a) /\ a # b =>
                   ~(a \in 1..12 /\ b \in 1..DaysInMonth(y, a))

\* 1/5/2024 is January 5, although May 1 exists
C25_Witness ==
    /\ parsedDate.some
    /\ DayMonthYearShaped(dateText)
    /\ NumbersOf(dateText)[1] = 1
    /\ NumbersOf(dateText)[2] = 5
    /\ parsedDate.value.month = 0
    /\ parsedDate.value.day = 5

\* 13/1/2024 is January 13: the month-first formats give no valid date
C25_WitnessDayFirst ==
    /\ parsedDate.some
    /\ DayMonthYearShaped(dateText)
    /\ NumbersOf(dateText)[1] = 13
    /\ NumbersOf(dateText)[2] = 1
    /\ parsedDate.value.month = 0
    /\ parsedDate.value.day = 13

\* --------------------------------------------------------------------- C30
\* after the greeting the messages are pairs of a user message and the AI
\* message that follows it, with a last user message of its own exactly
\* while its request is unsettled
PairedMessages ==
    /\ messages[1] = Greeting
    /\ \A i \in 2..Len(messages) :
           messages[i].type = (IF i % 2 = 0 THEN "user" ELSE "ai")
    /\ Len(messages) % 2 = 0 <=> pending # <<>>
    /\ isLoading <=> pending # <<>>

\* C30: under any interleaving of send events (click or Enter) and request
\* completions, no analyzeWithAI request is started while an earlier one is
\* unsettled, and every accepted user message is followed by exactly one AI
\* message (answer or apology), after which isLoading is false.
C30_OneRequestOneAnswer ==
    /\ [][/\ Len(pending') <= 1
          /\ Len(pending') > Len(pending) => pending = <<>>
          /\ PairedMessages'
          /\ Len(messages') > Len(messages) /\ messages'[Len(messages')].type = "ai" =>
                 /\ Len(messages') = Len(messages) + 1
                 /\ messages[Len(messages)].type = "user"
                 /\ ~isLoading']_vars
    /\ \A n \in 1..MaxSends :
           (Len(messages) = 2 * n) ~> (Len(messages) = 2 * n + 1 /\ ~isLoading)

\* two questions, the first answered and the second met with the apology
C30_Witness ==
    /\ Len(messages) = 5
    /\ messages[3].analysis
    /\ messages[5].content = Apology
    /\ ~isLoading
    /\ pending = <<>>

====
